---- MODULE Spec2Model ----
(***************************************************************************)
(* Event ingestion, reconciliation and replay engine of the deployment     *)
(* dashboard: the push hook and the callback store (Event & Output Store), *)
(* WebSocketManager (Transport Manager), ReplayControls (Replay            *)
(* Controller) and the timeline projection (Timeline Projector).           *)
(*                                                                         *)
(* Each component has its own specification over its own variables; the    *)
(* variables of the other components stay at their initial values.         *)
(***************************************************************************)
EXTENDS Integers, Sequences, FiniteSets, TLC

(***************************************************************************)
(* Bounds of the model.                                                    *)
(***************************************************************************)
\* messages delivered to the two stores together
MaxMsgs == 2
\* sockets of one WebSocketManager alive at a time
MaxSockets == 2
\* reconnect timers of one WebSocketManager pending at a time
MaxTimers == 2
\* events of the replayed list
MaxReplayLen == 3
\* events fed to the projection from the event universe
MaxFeed == 2
\* requests of the poll hook awaiting their response
MaxInFlight == 2
\* event lists the replay page gives its controls
MaxLists == 2

(***************************************************************************)
(* Generic helpers.                                                        *)
(***************************************************************************)
Range(s) == {s[i] : i \in 1..Len(s)}

\* the empty JS object {}
EmptyMap == [x \in {} |-> 0]

\* obj[key] = value on a JS object kept as a function
SetKey(obj, key, value) ==
  [x \in (DOMAIN obj) \cup {key} |-> IF x = key THEN value ELSE obj[x]]

\* the object spread {...a, ...b}: b's keys win
Spread(a, b) ==
  [x \in (DOMAIN a) \cup (DOMAIN b) |-> IF x \in DOMAIN b THEN b[x] ELSE a[x]]

\* JS truthiness of an optional string field: present and not ""
TruthyStr(obj, field) == field \in DOMAIN obj /\ obj[field] # ""

\* JS truthiness of an optional object field: present (objects are truthy)
TruthyObj(obj, field) == field \in DOMAIN obj

(***************************************************************************)
(* Event & Output Store: inputs.                                           *)
(***************************************************************************)
Keys == {"a", "b"}
Vals == {1, 2}
OutputStages == {"clone", "tests"}
Runs == {"A", "B"}

\* output fragments: partial mappings of named output values
Frags == UNION {[D -> Vals] : D \in (SUBSET Keys) \ {{}}}

\* a payload JSON.parse / request.json() rejects
Undecodable == [raw |-> "not json"]
Decodable(m) == "raw" \notin DOMAIN m

\* what the push channel may deliver to the hook
PushMsgs ==
  {Undecodable}
    \cup {[type |-> "agent_outputs", stage |-> s, outputs |-> f] :
            s \in OutputStages, f \in Frags}
    \cup {[type |-> "agent_outputs", stage |-> "clone"]}
    \cup {[type |-> "status", stage |-> s, ts |-> t] :
            s \in OutputStages, t \in {1, 2}}

\* what the backend may POST to the callback route
PollPosts ==
  {Undecodable}
    \cup {[type |-> "status", stage |-> "clone", ts |-> 1]}
    \cup {[type |-> "status", stage |-> "clone", ts |-> t, deployment_id |-> "A"] :
            t \in {1, 2}}
    \cup {[type |-> "status", stage |-> "clone", ts |-> 1, deployment_id |-> "B"]}
    \cup {[type |-> "status", stage |-> s, ts |-> 1, deployment_id |-> "A",
           agent_outputs |-> f] : s \in OutputStages, f \in Frags}
    \cup {[type |-> "status", stage |-> "clone", ts |-> 1, deployment_id |-> "B",
           agent_outputs |-> [a |-> 2]]}
    \cup {[type |-> "trace", subtype |-> "agent_delta", stage |-> "clone", ts |-> 1,
           deployment_id |-> "A", delta |-> f] : f \in Frags}
    \cup {[type |-> "trace", subtype |-> "tool_end", stage |-> "clone", ts |-> 1,
           deployment_id |-> "A", delta |-> [a |-> 1]]}
    \cup {[type |-> "agent_outputs", stage |-> "clone", deployment_id |-> "A",
           outputs |-> [a |-> 1]]}

VARIABLES
  \* useDeploymentWebSocket state
  wsEvents, wsAgentOutputs,
  \* the callback route's module-level stores
  deploymentEvents, deploymentAgentOutputs,
  \* history: the decodable messages and the output fragments that arrived
  pushArrived, pushFragments, pollArrived, pollFragments, nDelivered,
  \* history: which of the push deliveries (by their number) could not be decoded
  undecodedAt

storeVars == <<wsEvents, wsAgentOutputs, deploymentEvents, deploymentAgentOutputs,
               pushArrived, pushFragments, pollArrived, pollFragments, nDelivered,
               undecodedAt>>

VARIABLES
  \* WebSocketManager fields; readyState is that of every live socket, ws the
  \* socket this.ws refers to (0 for null)
  ws, readyState, reconnectAttempts, reconnectDelay, isManualClose,
  \* what notifyStatus last told the status handlers
  status,
  \* the pending setTimeout callbacks of scheduleReconnect, by their delay
  reconnectTimers,
  \* history: the delays scheduled since the attempt counter was last reset
  scheduledDelays,
  \* history: the last connect() was a manual one made after the automatic
  \* attempts were used up
  manualAfterExhaustion,
  \* history: how many of the pending timers (the oldest ones) were scheduled
  \* before a later disconnect() or a later successful connect
  cancelledTimers

managerVars == <<ws, readyState, reconnectAttempts, reconnectDelay, isManualClose,
                 status, reconnectTimers, scheduledDelays, manualAfterExhaustion,
                 cancelledTimers>>

VARIABLES
  \* ReplayViewer (parent) state: the fetched list's length, the cursor, isPlaying
  eventsLength, currentEventIndex, parentIsPlaying,
  \* ReplayControls state; playbackSpeed is kept doubled (1, 2, 4, 8 for 0.5x..4x)
  isPlaying, playbackSpeed,
  \* the setTimeout of the auto-play effect: the index it will set, its delay,
  \* the list it was armed for, and how many timer handles are live
  timeout,
  \* history: how many lists the page has given the controls
  listGen,
  \* the effects React has still to run for the last state change
  pendingEffects,
  \* history: the last operation, the values onPlayStateChange was called with
  \* since then, and whether the user has left the controls alone for good
  lastOp, notifications, handsOff

replayVars == <<eventsLength, currentEventIndex, parentIsPlaying, isPlaying,
                playbackSpeed, timeout, pendingEffects, lastOp, notifications, handsOff,
                listGen>>

VARIABLES
  \* the event list handed to the timeline projection, and what it derives from it
  events, projection,
  \* history: which list is being fed ("none", "free", "success", "failed")
  scenario

projectorVars == <<events, projection, scenario>>

VARIABLES
  \* useDeploymentWebSocket: its deploymentId argument, wsRef, the sockets it
  \* created, connectionStatus and reconnectTimeoutRef
  hookDeploymentId, wsRef, hookReadyState, connectionStatus, reconnectTimeoutRef,
  \* history: the last thing that happened to the hook
  hookLastOp

hookVars == <<hookDeploymentId, wsRef, hookReadyState, connectionStatus,
              reconnectTimeoutRef, hookLastOp>>

VARIABLES
  \* useDeploymentEvents: its deploymentId argument and its state
  pollDeploymentId, polledEvents, polledAgentOutputs, isConnected, pollError, isPolling,
  \* the requests awaiting their response: getEventsFromCallback calls (by run)
  \* and registerCallback calls (by run)
  fetches, registrations,
  \* the setInterval of the poll effect, with the pollEvents closure it holds
  interval,
  \* the dependency values of the render whose effects ran last
  rendered,
  \* history: the last callback that ran in the poll hook
  pollLastOp

pollVars == <<pollDeploymentId, polledEvents, polledAgentOutputs, isConnected, pollError,
              isPolling, fetches, registrations, interval, rendered, pollLastOp>>

VARIABLES
  \* ReplayViewer: the route parameter and the page's state
  pageDeploymentId, deployment, loading, pageError, selectedEvent,
  \* getReplayEvents calls awaiting their response (by run)
  replayFetches,
  \* history: the last thing that happened to the page, and for which run
  pageLastOp

pageVars == <<pageDeploymentId, deployment, loading, pageError, selectedEvent,
              replayFetches, pageLastOp>>

VARIABLES
  \* which transport of websocket.ts the mounted component uses
  consumer,
  \* what notifyEvent last gave the manager's event handlers
  notifiedEvent

transportVars == <<consumer, notifiedEvent>>

VARIABLES
  \* DeploymentMonitor: its props, its deploymentId and isMonitoring state
  monitorProps, monitorDeploymentId, isMonitoring,
  \* the last thing that happened to the monitor
  monitorLastOp

monitorVars == <<monitorProps, monitorDeploymentId, isMonitoring, monitorLastOp>>

vars == <<storeVars, managerVars, replayVars, projectorVars, hookVars, pollVars, pageVars,
          transportVars, monitorVars>>

notStore == <<managerVars, replayVars, projectorVars, hookVars, pollVars, pageVars, transportVars, monitorVars>>
notManager == <<storeVars, replayVars, projectorVars, hookVars, pollVars, pageVars, transportVars, monitorVars>>
notReplay == <<storeVars, managerVars, projectorVars, hookVars, pollVars, pageVars, transportVars, monitorVars>>
notProjector == <<storeVars, managerVars, replayVars, hookVars, pollVars, pageVars, transportVars, monitorVars>>
notHook == <<storeVars, managerVars, replayVars, projectorVars, pollVars, pageVars, transportVars, monitorVars>>
notPoll == <<storeVars, managerVars, replayVars, projectorVars, hookVars, pageVars, transportVars, monitorVars>>
notTransport == <<storeVars, managerVars, replayVars, projectorVars, hookVars, pollVars,
                  pageVars, monitorVars>>
notPage == <<storeVars, managerVars, replayVars, projectorVars, hookVars, pollVars, transportVars, monitorVars>>
notMonitor == <<storeVars, managerVars, replayVars, projectorVars, hookVars, pollVars,
                pageVars, transportVars>>
notMonitorHookStore == <<managerVars, replayVars, projectorVars, pollVars, pageVars,
                         transportVars>>

(***************************************************************************)
(* Event & Output Store: useDeploymentWebSocket (push path).               *)
(***************************************************************************)
\* a log that would collapse an event with an identical earlier one
AppendEventDedup(prev, data) ==
  IF data \in Range(prev) THEN prev ELSE Append(prev, data)

\* setEvents(prev => [...prev, data])
AppendEvent(prev, data) == Append(prev, data)

\* setAgentOutputs(prev => ({...prev, [stage]: outputs}))
SetStageOutputs(prev, stage, outputs) == SetKey(prev, stage, outputs)

\* a catch of JSON.parse that would drop what was held
DiscardAndReset(held) == <<>>

\* catch (error) { console.error(...) }: what was held stays
Discard(held) == held

IsControl(m) == Decodable(m) /\ m.type = "agent_outputs"

\* the fragment a push message carries for the merge path, if any
PushFragment(m) ==
  IF IsControl(m) /\ TruthyStr(m, "stage") /\ TruthyObj(m, "outputs")
  THEN {m.outputs} ELSE {}

\* ws.onmessage
HookOnMessage(m) ==
  /\ nDelivered < MaxMsgs
  /\ nDelivered' = nDelivered + 1
  /\ IF ~Decodable(m)
     THEN /\ wsEvents' = Discard(wsEvents)
          /\ UNCHANGED wsAgentOutputs
     ELSE IF m.type = "agent_outputs"
          THEN /\ wsAgentOutputs' =
                    IF TruthyStr(m, "stage") /\ TruthyObj(m, "outputs")
                    THEN SetStageOutputs(wsAgentOutputs, m.stage, m.outputs)
                    ELSE wsAgentOutputs
               /\ UNCHANGED wsEvents
          ELSE /\ wsEvents' = AppendEvent(wsEvents, m)
               /\ UNCHANGED wsAgentOutputs
  /\ pushArrived' = IF Decodable(m) THEN Append(pushArrived, m) ELSE pushArrived
  /\ undecodedAt' = IF Decodable(m) THEN undecodedAt ELSE undecodedAt \cup {nDelivered + 1}
  /\ pushFragments' = IF PushFragment(m) # {}
                      THEN Append(pushFragments, [stage |-> m.stage, outputs |-> m.outputs])
                      ELSE pushFragments
  /\ UNCHANGED <<deploymentEvents, deploymentAgentOutputs, pollArrived, pollFragments>>
  /\ UNCHANGED notStore

\* clearEvents
ClearEvents ==
  /\ wsEvents' = <<>>
  /\ wsAgentOutputs' = EmptyMap
  /\ pushArrived' = <<>>
  /\ pushFragments' = <<>>
  /\ UNCHANGED <<deploymentEvents, deploymentAgentOutputs, pollArrived, pollFragments,
                 nDelivered, undecodedAt>>
  /\ UNCHANGED notStore

(***************************************************************************)
(* Event & Output Store: POST /api/agent-events (poll path).               *)
(***************************************************************************)
\* agentOutputsData of the route: agent_outputs, else an agent_delta trace's delta
AgentOutputsData(event) ==
  IF TruthyObj(event, "agent_outputs") THEN {event.agent_outputs}
  ELSE IF event.type = "trace" /\ "subtype" \in DOMAIN event
          /\ event.subtype = "agent_delta" /\ TruthyObj(event, "delta")
       THEN {event.delta}
       ELSE {}

\* a push into one list shared by the runs already known
PushEventShared(store, deploymentId, event) ==
  [id \in DOMAIN store \cup {deploymentId} |->
     AppendEvent(IF id \in DOMAIN store THEN store[id] ELSE <<>>, event)]

\* deploymentEvents[deploymentId].push(event)
PushEvent(store, deploymentId, event) ==
  SetKey(store, deploymentId,
         AppendEvent(IF deploymentId \in DOMAIN store THEN store[deploymentId] ELSE <<>>,
                     event))

\* deploymentAgentOutputs[deploymentId][event.stage] = {...old, ...agentOutputsData}
StoreAgentOutputs(store, deploymentId, stage, data) ==
  LET mine == IF deploymentId \in DOMAIN store THEN store[deploymentId] ELSE EmptyMap
      old == IF stage \in DOMAIN mine THEN mine[stage] ELSE EmptyMap
  IN SetKey(store, deploymentId, SetKey(mine, stage, Spread(old, data)))

\* history of a run: one more arrival noted
NoteFor(history, deploymentId, x) ==
  SetKey(history, deploymentId,
         Append(IF deploymentId \in DOMAIN history THEN history[deploymentId] ELSE <<>>, x))

\* the store's view of a run, as GET returns it
EventsOf(store, deploymentId) ==
  IF deploymentId \in DOMAIN store THEN store[deploymentId] ELSE <<>>

OutputsOf(store, deploymentId) ==
  IF deploymentId \in DOMAIN store THEN store[deploymentId] ELSE EmptyMap

\* POST
Post(event) ==
  /\ nDelivered < MaxMsgs
  /\ nDelivered' = nDelivered + 1
  /\ IF ~Decodable(event) \/ ~TruthyStr(event, "deployment_id")
     THEN UNCHANGED <<deploymentEvents, deploymentAgentOutputs, pollArrived, pollFragments>>
     ELSE LET id == event.deployment_id
              data == AgentOutputsData(event)
          IN /\ deploymentEvents' = PushEvent(deploymentEvents, id, event)
             /\ deploymentAgentOutputs' =
                  IF data # {}
                  THEN StoreAgentOutputs(deploymentAgentOutputs, id, event.stage,
                                         CHOOSE d \in data : TRUE)
                  ELSE deploymentAgentOutputs
             /\ pollArrived' = NoteFor(pollArrived, id, event)
             /\ pollFragments' =
                  IF data # {}
                  THEN NoteFor(pollFragments, id,
                               [stage |-> event.stage, outputs |-> CHOOSE d \in data : TRUE])
                  ELSE pollFragments
  /\ UNCHANGED <<wsEvents, wsAgentOutputs, pushArrived, pushFragments, undecodedAt>>
  /\ UNCHANGED notStore

StoreInit ==
  /\ wsEvents = <<>>
  /\ wsAgentOutputs = EmptyMap
  /\ deploymentEvents = EmptyMap
  /\ deploymentAgentOutputs = EmptyMap
  /\ pushArrived = <<>>
  /\ pushFragments = <<>>
  /\ pollArrived = EmptyMap
  /\ pollFragments = EmptyMap
  /\ nDelivered = 0
  /\ undecodedAt = {}

NextStore ==
  \/ \E m \in PushMsgs : HookOnMessage(m)
  \/ ClearEvents
  \/ \E event \in PollPosts : Post(event)

(***************************************************************************)
(* Transport Manager: WebSocketManager.                                    *)
(***************************************************************************)
\* private maxReconnectAttempts = 5
MaxReconnectAttempts == 5
\* private reconnectDelay = 1000
BaseReconnectDelay == 1000
\* the cap in Math.min(..., 30000)
ReconnectDelayCap == 30000

Sockets == 1..MaxSockets

RECURSIVE Pow2(_)
\* Math.pow(2, n)
Pow2(n) == IF n <= 0 THEN 1 ELSE 2 * Pow2(n - 1)

\* Math.min
Min(a, b) == IF a <= b THEN a ELSE b

\* Math.min(this.reconnectDelay * Math.pow(2, this.reconnectAttempts - 1), 30000)
ReconnectBackoff(base, attempts) == Min(base * Pow2(attempts - 1), ReconnectDelayCap)

\* a scheduleReconnect that would not stop at maxReconnectAttempts
ScheduleReconnectNoLimit(manual, pending) ==
  IF manual
  THEN /\ reconnectTimers' = pending
       /\ UNCHANGED <<reconnectAttempts, scheduledDelays>>
  ELSE /\ Len(pending) < MaxTimers
       /\ reconnectAttempts' = reconnectAttempts + 1
       /\ reconnectTimers' =
            Append(pending, ReconnectBackoff(reconnectDelay, reconnectAttempts + 1))
       /\ scheduledDelays' =
            Append(scheduledDelays, ReconnectBackoff(reconnectDelay, reconnectAttempts + 1))

\* scheduleReconnect, run with isManualClose = manual and the timers in `pending`
ScheduleReconnect(manual, pending) ==
  IF manual \/ reconnectAttempts >= MaxReconnectAttempts
  THEN /\ reconnectTimers' = pending
       /\ UNCHANGED <<reconnectAttempts, scheduledDelays>>
  ELSE /\ Len(pending) < MaxTimers
       /\ reconnectAttempts' = reconnectAttempts + 1
       /\ reconnectTimers' =
            Append(pending, ReconnectBackoff(reconnectDelay, reconnectAttempts + 1))
       /\ scheduledDelays' =
            Append(scheduledDelays, ReconnectBackoff(reconnectDelay, reconnectAttempts + 1))

\* the slot a new WebSocket(url) takes
FreeSocket == CHOOSE s \in Sockets : readyState[s] = "NONE" /\
                 \A t \in Sockets : readyState[t] = "NONE" => s <= t

\* connect(), with the timers in `pending`; throws: new WebSocket(url) throws
ConnectBody(throws, pending) ==
  IF ws # 0 /\ readyState[ws] = "OPEN"
  THEN /\ reconnectTimers' = pending
       /\ UNCHANGED <<ws, readyState, reconnectAttempts, reconnectDelay, isManualClose,
                      status, scheduledDelays>>
  ELSE /\ isManualClose' = FALSE
       /\ UNCHANGED reconnectDelay
       /\ IF throws
          THEN /\ status' = "error"
               /\ ScheduleReconnect(FALSE, pending)
               /\ UNCHANGED <<ws, readyState>>
          ELSE /\ \E s \in Sockets : readyState[s] = "NONE"
               /\ ws' = FreeSocket
               /\ readyState' = [readyState EXCEPT ![FreeSocket] = "CONNECTING"]
               /\ status' = "connecting"
               /\ reconnectTimers' = pending
               /\ UNCHANGED <<reconnectAttempts, scheduledDelays>>

LiveSockets == {s \in Sockets : readyState[s] \in {"CONNECTING", "OPEN"}}

\* connect() called by the owner of the manager
Connect(throws) ==
  /\ ConnectBody(throws, reconnectTimers)
  /\ manualAfterExhaustion' = /\ reconnectAttempts = MaxReconnectAttempts
                              /\ reconnectTimers = <<>>
                              /\ LiveSockets = {}
  /\ UNCHANGED cancelledTimers
  /\ UNCHANGED notManager

\* disconnect()
Disconnect ==
  /\ isManualClose' = TRUE
  /\ IF ws # 0
     THEN /\ readyState' = [readyState EXCEPT ![ws] = "CLOSING"]
          /\ ws' = 0
     ELSE UNCHANGED <<ws, readyState>>
  /\ status' = "disconnected"
  /\ manualAfterExhaustion' = FALSE
  /\ cancelledTimers' = Len(reconnectTimers)
  /\ UNCHANGED <<reconnectAttempts, reconnectDelay, reconnectTimers, scheduledDelays>>
  /\ UNCHANGED notManager

\* the transport of socket s opens: ws.onopen
SocketOpen(s) ==
  /\ readyState[s] = "CONNECTING"
  /\ readyState' = [readyState EXCEPT ![s] = "OPEN"]
  /\ reconnectAttempts' = 0
  /\ reconnectDelay' = BaseReconnectDelay
  /\ status' = "connected"
  /\ scheduledDelays' = <<>>
  /\ manualAfterExhaustion' = FALSE
  /\ cancelledTimers' = Len(reconnectTimers)
  /\ UNCHANGED <<ws, isManualClose, reconnectTimers>>
  /\ UNCHANGED notManager

\* the transport of socket s closes (it failed to open, dropped, or close() ended):
\* ws.onclose
SocketClose(s) ==
  /\ readyState[s] \in {"CONNECTING", "OPEN", "CLOSING"}
  /\ readyState' = [readyState EXCEPT ![s] = "NONE"]
  /\ ws' = 0
  /\ IF ~isManualClose
     THEN /\ status' = "disconnected"
          /\ ScheduleReconnect(isManualClose, reconnectTimers)
     ELSE UNCHANGED <<status, reconnectAttempts, reconnectTimers, scheduledDelays>>
  /\ UNCHANGED <<reconnectDelay, isManualClose, manualAfterExhaustion, cancelledTimers>>
  /\ UNCHANGED notManager

\* ws.onerror
SocketError(s) ==
  /\ readyState[s] \in {"CONNECTING", "OPEN"}
  /\ status' = "error"
  /\ UNCHANGED <<ws, readyState, reconnectAttempts, reconnectDelay, isManualClose,
                 reconnectTimers, scheduledDelays, manualAfterExhaustion,
                 cancelledTimers>>
  /\ UNCHANGED notManager

\* s without its i-th element
RemoveAt(s, i) == SubSeq(s, 1, i - 1) \o SubSeq(s, i + 1, Len(s))

\* the setTimeout callback of scheduleReconnect fires
ReconnectTimerFire(i, throws) ==
  /\ i \in 1..Len(reconnectTimers)
  /\ IF ~isManualClose
     THEN ConnectBody(throws, RemoveAt(reconnectTimers, i))
     ELSE /\ reconnectTimers' = RemoveAt(reconnectTimers, i)
          /\ UNCHANGED <<ws, readyState, reconnectAttempts, reconnectDelay,
                         isManualClose, status, scheduledDelays>>
  /\ manualAfterExhaustion' = FALSE
  /\ cancelledTimers' = IF i <= cancelledTimers THEN cancelledTimers - 1
                        ELSE cancelledTimers
  /\ UNCHANGED notManager

ManagerInit ==
  /\ ws = 0
  /\ readyState = [s \in Sockets |-> "NONE"]
  /\ reconnectAttempts = 0
  /\ reconnectDelay = BaseReconnectDelay
  /\ isManualClose = FALSE
  /\ status = "disconnected"
  /\ reconnectTimers = <<>>
  /\ scheduledDelays = <<>>
  /\ manualAfterExhaustion = FALSE
  /\ cancelledTimers = 0

NextManager ==
  \/ \E throws \in BOOLEAN : Connect(throws)
  \/ Disconnect
  \/ \E s \in Sockets : SocketOpen(s)
  \/ \E s \in Sockets : SocketClose(s)
  \/ \E s \in Sockets : SocketError(s)
  \/ \E i \in 1..MaxTimers, throws \in BOOLEAN : ReconnectTimerFire(i, throws)

(***************************************************************************)
(* Replay Controller: ReplayControls under ReplayViewer.                   *)
(*                                                                         *)
(* A handler or timer callback runs to completion; React then re-renders   *)
(* and runs the effects whose dependencies changed (RunEffects) before the *)
(* next callback is dispatched.  The callback props onEventIndexChange and *)
(* onPlayStateChange are new functions on every render of the parent, so   *)
(* every change of the parent's state re-runs both effects.                *)
(***************************************************************************)
\* the speed buttons [0.5, 1, 2, 4], doubled
Speeds == {1, 2, 4, 8}

\* clickX / rect.width as numerator and denominator
PointerFractions == {<<0 - 1, 2>>, <<0, 1>>, <<1, 4>>, <<1, 2>>, <<3, 4>>, <<1, 1>>, <<5, 4>>}

NoTimeout == [armed |-> FALSE, target |-> 0, delay |-> 0, list |-> 0, handles |-> 0]

\* a clean-up that would leave the timer of the previous effect run alone
ClearTimeoutForgotten(handle) == handle

\* return () => clearTimeout(timeout)
ClearTimeout(handle) == NoTimeout

Max(a, b) == IF a >= b THEN a ELSE b

\* Math.round(num / den * (length - 1)): the nearest integer, halves upwards
RoundScaled(num, den, length) == (2 * num * (length - 1) + den) \div (2 * den)

\* a clamp that would forget the upper end
ClampIndexNoUpper(targetIndex, length) == Max(0, targetIndex)

\* Math.max(0, Math.min(targetIndex, events.length - 1))
ClampIndex(targetIndex, length) == Max(0, Min(targetIndex, length - 1))

\* 1000 / playbackSpeed, the speed kept doubled
TickDelay(speed) == 2000 \div speed

\* an auto-play effect that would lack the auto-stop branch
AutoPlayBranchNoStop(playing, index, length) ==
  IF playing /\ index < length - 1 THEN "arm" ELSE "none"

\* which branch the auto-play effect takes
AutoPlayBranch(playing, index, length) ==
  IF playing /\ index < length - 1 THEN "arm"
  ELSE IF playing /\ index >= length - 1 THEN "stop"
  ELSE "none"

BothEffects == {"notify", "autoplay"}

\* a callback may run: the controls are rendered (events.length > 0), React owes
\* no effects, and the user is still at the controls
UserMayAct == eventsLength > 0 /\ pendingEffects = {} /\ ~handsOff

\* fetchDeployment resolves with n events; ReplayControls mounts and runs its effects
LoadEvents(n) ==
  /\ lastOp = "init"
  /\ eventsLength' = n
  /\ listGen' = listGen + 1
  /\ currentEventIndex' = IF n > 0 THEN 0 ELSE currentEventIndex
  /\ pendingEffects' = BothEffects
  /\ lastOp' = "load"
  /\ notifications' = <<>>
  /\ UNCHANGED <<parentIsPlaying, isPlaying, playbackSpeed, timeout, handsOff>>
  /\ UNCHANGED notReplay

\* togglePlayback
TogglePlayback ==
  /\ UserMayAct
  /\ isPlaying' = ~isPlaying
  /\ pendingEffects' = BothEffects
  /\ lastOp' = IF isPlaying THEN "pause" ELSE "play"
  /\ notifications' = <<>>
  /\ UNCHANGED <<eventsLength, listGen, currentEventIndex, parentIsPlaying, playbackSpeed,
                 timeout, handsOff>>
  /\ UNCHANGED notReplay

\* onEventIndexChange(index) = setCurrentEventIndex(index): the parent re-renders
\* when the value changes
SetIndex(index, op) ==
  /\ currentEventIndex' = index
  /\ pendingEffects' = IF index # currentEventIndex THEN BothEffects ELSE {}
  /\ lastOp' = op
  /\ notifications' = <<>>

\* stepForward
StepForward ==
  /\ UserMayAct
  /\ IF currentEventIndex < eventsLength - 1
     THEN SetIndex(currentEventIndex + 1, "stepForward")
     ELSE SetIndex(currentEventIndex, "stepForward")
  /\ UNCHANGED <<eventsLength, listGen, parentIsPlaying, isPlaying, playbackSpeed, timeout,
                 handsOff>>
  /\ UNCHANGED notReplay

\* stepBackward
StepBackward ==
  /\ UserMayAct
  /\ IF currentEventIndex > 0
     THEN SetIndex(currentEventIndex - 1, "stepBackward")
     ELSE SetIndex(currentEventIndex, "stepBackward")
  /\ UNCHANGED <<eventsLength, listGen, parentIsPlaying, isPlaying, playbackSpeed, timeout,
                 handsOff>>
  /\ UNCHANGED notReplay

\* a jump that would move the cursor and leave the play state alone
GoToWithoutStop(index, op) ==
  /\ UserMayAct
  /\ currentEventIndex' = index
  /\ pendingEffects' = IF index # currentEventIndex THEN BothEffects ELSE {}
  /\ lastOp' = op
  /\ notifications' = <<>>
  /\ UNCHANGED <<eventsLength, listGen, isPlaying, parentIsPlaying, playbackSpeed,
                 timeout, handsOff>>
  /\ UNCHANGED notReplay

\* goToStart / goToEnd: onEventIndexChange(index); setIsPlaying(false);
\* onPlayStateChange?.(false)
GoTo(index, op) ==
  /\ UserMayAct
  /\ currentEventIndex' = index
  /\ isPlaying' = FALSE
  /\ parentIsPlaying' = FALSE
  /\ pendingEffects' = IF index # currentEventIndex \/ isPlaying \/ parentIsPlaying
                       THEN BothEffects ELSE {}
  /\ lastOp' = op
  /\ notifications' = <<FALSE>>
  /\ UNCHANGED <<eventsLength, listGen, playbackSpeed, timeout, handsOff>>
  /\ UNCHANGED notReplay

GoToStart == GoTo(0, "goToStart")

GoToEnd == GoTo(eventsLength - 1, "goToEnd")

\* changeSpeed
ChangeSpeed(speed) ==
  /\ UserMayAct
  /\ playbackSpeed' = speed
  /\ pendingEffects' = IF speed # playbackSpeed THEN {"autoplay"} ELSE {}
  /\ lastOp' = "setSpeed"
  /\ notifications' = <<>>
  /\ UNCHANGED <<eventsLength, listGen, currentEventIndex, parentIsPlaying, isPlaying, timeout,
                 handsOff>>
  /\ UNCHANGED notReplay

\* handleTimelineClick, the pointer at fraction f[1] / f[2] of the scrubber
TimelineClick(f) ==
  /\ UserMayAct
  /\ SetIndex(ClampIndex(RoundScaled(f[1], f[2], eventsLength), eventsLength),
              IF f[1] > f[2] THEN "seekBeyond" ELSE IF f[1] < 0 THEN "seekBefore" ELSE "seek")
  /\ UNCHANGED <<eventsLength, listGen, parentIsPlaying, isPlaying, playbackSpeed, timeout,
                 handsOff>>
  /\ UNCHANGED notReplay

\* the auto-play timeout fires: onEventIndexChange(currentEventIndex + 1), with the
\* index the effect closed over
Tick ==
  /\ timeout.armed
  /\ pendingEffects = {}
  /\ SetIndex(timeout.target, "tick")
  /\ timeout' = NoTimeout
  /\ UNCHANGED <<eventsLength, listGen, parentIsPlaying, isPlaying, playbackSpeed, handsOff>>
  /\ UNCHANGED notReplay

\* React runs the pending effects of ReplayControls: first the clean-up of the
\* auto-play effect (clearTimeout), then the notify effect, then the auto-play effect
RunEffects ==
  /\ pendingEffects # {}
  /\ LET branch == IF "autoplay" \in pendingEffects
                   THEN AutoPlayBranch(isPlaying, currentEventIndex, eventsLength)
                   ELSE "none"
         notified == IF "notify" \in pendingEffects THEN <<isPlaying>> ELSE <<>>
         stopped == IF branch = "stop" THEN <<FALSE>> ELSE <<>>
         calls == notified \o stopped
         parent == IF calls = <<>> THEN parentIsPlaying ELSE calls[Len(calls)]
     IN /\ timeout' = IF "autoplay" \notin pendingEffects THEN timeout
                      ELSE IF branch = "arm"
                           THEN [armed |-> TRUE, target |-> currentEventIndex + 1,
                                 delay |-> TickDelay(playbackSpeed), list |-> listGen,
                                 handles |-> ClearTimeout(timeout).handles + 1]
                           ELSE ClearTimeout(timeout)
        /\ isPlaying' = IF branch = "stop" THEN FALSE ELSE isPlaying
        /\ parentIsPlaying' = parent
        /\ notifications' = notifications \o calls
        /\ pendingEffects' = IF branch = "stop" \/ parent # parentIsPlaying
                             THEN BothEffects ELSE {}
  /\ UNCHANGED <<eventsLength, listGen, currentEventIndex, playbackSpeed, lastOp, handsOff>>
  /\ UNCHANGED notReplay

\* the pending effects after the parent rendered the controls with another
\* list, if only the values among the dependencies counted
EffectsOfNewListByValue(oldLength, newLength, oldIndex, newIndex) ==
  IF oldLength # newLength \/ oldIndex # newIndex THEN BothEffects ELSE {}

\* the pending effects after the parent rendered the controls with another
\* list: the parent's render made new callback props
EffectsOfNewList(oldLength, newLength, oldIndex, newIndex) == BothEffects

\* a later fetchDeployment resolves with n events while the page shows the
\* controls: setDeployment, and setCurrentEventIndex(0) for a nonempty list
ReplaceEvents(n) ==
  /\ lastOp # "init"
  /\ pendingEffects = {}
  /\ ~handsOff
  /\ listGen < MaxLists
  /\ listGen' = listGen + 1
  /\ eventsLength' = n
  /\ currentEventIndex' = IF n > 0 THEN 0 ELSE currentEventIndex
  /\ pendingEffects' = EffectsOfNewList(eventsLength, n, currentEventIndex,
                                        currentEventIndex')
  /\ lastOp' = "replace"
  /\ notifications' = <<>>
  /\ UNCHANGED <<parentIsPlaying, isPlaying, playbackSpeed, timeout, handsOff>>
  /\ UNCHANGED notReplay

\* the page stops rendering the controls (loading, or the page is left): the
\* clean-ups run and the state of ReplayControls is gone; nothing is presented
\* until the next load
Unmount ==
  /\ lastOp # "init"
  /\ pendingEffects = {}
  /\ ~handsOff
  /\ listGen < MaxLists
  /\ timeout' = ClearTimeout(timeout)
  /\ isPlaying' = FALSE
  /\ playbackSpeed' = 2
  /\ eventsLength' = 0
  /\ lastOp' = "init"
  /\ notifications' = <<>>
  /\ UNCHANGED <<listGen, currentEventIndex, parentIsPlaying, pendingEffects, handsOff>>
  /\ UNCHANGED notReplay

\* from here on no user operation intervenes
LeaveAlone ==
  /\ UserMayAct
  /\ handsOff' = TRUE
  /\ UNCHANGED <<eventsLength, listGen, currentEventIndex, parentIsPlaying, isPlaying,
                 playbackSpeed, timeout, pendingEffects, lastOp, notifications>>
  /\ UNCHANGED notReplay

ReplayInit ==
  /\ eventsLength = 0
  /\ currentEventIndex = 0
  /\ parentIsPlaying = FALSE
  /\ isPlaying = FALSE
  /\ playbackSpeed = 2
  /\ timeout = NoTimeout
  /\ pendingEffects = {}
  /\ lastOp = "init"
  /\ notifications = <<>>
  /\ handsOff = FALSE
  /\ listGen = 0

NextReplay ==
  \/ \E n \in 0..MaxReplayLen : LoadEvents(n)
  \/ TogglePlayback
  \/ StepForward
  \/ StepBackward
  \/ GoToStart
  \/ GoToEnd
  \/ \E speed \in Speeds : ChangeSpeed(speed)
  \/ \E f \in PointerFractions : TimelineClick(f)
  \/ Tick
  \/ RunEffects
  \/ LeaveAlone

\* the controller with the page replacing its list or discarding it
NextReplayLists ==
  \/ NextReplay
  \/ \E n \in 0..MaxReplayLen : ReplaceEvents(n)
  \/ Unmount

(***************************************************************************)
(* Timeline Projector.  Strings the code searches (message, subtype) are   *)
(* kept as sequences of characters.                                        *)
(***************************************************************************)
UpperToLower ==
  ("A" :> "a") @@ ("B" :> "b") @@ ("C" :> "c") @@ ("D" :> "d") @@ ("E" :> "e")
    @@ ("F" :> "f") @@ ("G" :> "g") @@ ("H" :> "h") @@ ("I" :> "i") @@ ("J" :> "j")
    @@ ("K" :> "k") @@ ("L" :> "l") @@ ("M" :> "m") @@ ("N" :> "n") @@ ("O" :> "o")
    @@ ("P" :> "p") @@ ("Q" :> "q") @@ ("R" :> "r") @@ ("S" :> "s") @@ ("T" :> "t")
    @@ ("U" :> "u") @@ ("V" :> "v") @@ ("W" :> "w") @@ ("X" :> "x") @@ ("Y" :> "y")
    @@ ("Z" :> "z")

\* String.prototype.toLowerCase
ToLowerCase(s) ==
  [i \in 1..Len(s) |-> IF s[i] \in DOMAIN UpperToLower THEN UpperToLower[s[i]] ELSE s[i]]

\* String.prototype.includes
Includes(s, sub) ==
  \E i \in 1..(Len(s) - Len(sub) + 1) : SubSeq(s, i, i + Len(sub) - 1) = sub

StrStarting == <<"s", "t", "a", "r", "t", "i", "n", "g">>
StrCompleted == <<"c", "o", "m", "p", "l", "e", "t", "e", "d">>
StrEnd == <<"e", "n", "d">>
StrStart == <<"s", "t", "a", "r", "t">>

\* getEventStatus
GetEventStatus(event) ==
  IF event.type = "status"
  THEN IF TruthyStr(event, "error") THEN "failed"
       ELSE IF "status" \in DOMAIN event /\ event.status = "failed" THEN "failed"
       ELSE IF "status" \in DOMAIN event /\ event.status = "succeeded" THEN "completed"
       ELSE IF "message" \in DOMAIN event
               /\ Includes(ToLowerCase(event.message), StrStarting) THEN "running"
       ELSE IF "message" \in DOMAIN event
               /\ Includes(ToLowerCase(event.message), StrCompleted) THEN "completed"
       ELSE "running"
  ELSE IF event.type = "trace"
  THEN IF "subtype" \in DOMAIN event /\ Includes(event.subtype, StrEnd) THEN "completed"
       ELSE IF "subtype" \in DOMAIN event /\ Includes(event.subtype, StrStart) THEN "running"
       ELSE "running"
  ELSE "pending"

\* the canonical stage order of ReactFlowTimeline
Stages == <<"clone", "architect", "deps", "tests", "deployment", "incident_monitor", "final">>

\* events.filter((e) => e.stage === stage)
StageEvents(list, stage) ==
  LET RECURSIVE Filter(_)
      Filter(i) == IF i > Len(list) THEN <<>>
                   ELSE IF list[i].stage = stage THEN <<list[i]>> \o Filter(i + 1)
                   ELSE Filter(i + 1)
  IN Filter(1)

\* a stage status that would not look at the error fields
StageStatusIgnoringErrors(list, stage) ==
  LET finalEvents == StageEvents(list, "final")
  IN IF stage = "final" /\ finalEvents # <<>>
     THEN IF "status" \in DOMAIN finalEvents[1] /\ finalEvents[1].status = "failed"
          THEN "failed" ELSE "completed"
     ELSE "completed"

\* stageStatus of ReactFlowTimeline
StageStatus(list, stage) ==
  LET stageEvents == StageEvents(list, stage)
      hasError == \E i \in 1..Len(stageEvents) : "error" \in DOMAIN stageEvents[i]
      finalEvents == StageEvents(list, "final")
  IN IF stage = "final" /\ finalEvents # <<>>
     THEN IF "status" \in DOMAIN finalEvents[1] /\ finalEvents[1].status = "failed"
          THEN "failed" ELSE "completed"
     ELSE IF hasError THEN "failed"
     ELSE IF stageEvents # <<>> THEN "completed"
     ELSE "pending"

\* the stages the projection emits a group for
PopulatedStages(list) ==
  {Stages[i] : i \in {j \in 1..Len(Stages) : StageEvents(list, Stages[j]) # <<>>}}

\* the run-level status ReplayViewer.fetchDeployment derives
RunStatus(list) ==
  LET finalEvents == StageEvents(list, "final")
  IN IF finalEvents # <<>> /\ "status" \in DOMAIN finalEvents[1]
     THEN IF finalEvents[1].status # "" THEN finalEvents[1].status ELSE "succeeded"
     ELSE "succeeded"

\* the node ids `stage-${stage}` and `event-${stage}-${eventIndex}`
StageId(stage) == [kind |-> "stage", stage |-> stage]
EventId(stage, eventIndex) == [kind |-> "event", stage |-> stage, index |-> eventIndex]

\* the positions in the list of the events events.filter keeps for a stage
StagePositions(list, stage) ==
  LET RECURSIVE Filter(_)
      Filter(i) == IF i > Len(list) THEN <<>>
                   ELSE IF list[i].stage = stage THEN <<i>> \o Filter(i + 1)
                   ELSE Filter(i + 1)
  IN Filter(1)

\* the header node and the event nodes pushed for one stage; nothing for a
\* stage without events.  eventGlobalIndex is events.indexOf(event): the
\* events of a list are distinct objects
StageNodes(list, stage) ==
  LET stageEvents == StageEvents(list, stage)
  IN IF stageEvents = <<>> THEN <<>>
     ELSE <<[id |-> StageId(stage), type |-> "stage",
             eventCount |-> Len(stageEvents)]>>
          \o [k \in 1..Len(stageEvents) |->
                [id |-> EventId(stage, k - 1), type |-> "agent", stage |-> stage,
                 event |-> stageEvents[k],
                 eventGlobalIndex |-> StagePositions(list, stage)[k] - 1]]

\* the edges pushed for one stage: header to first event, each event to the
\* next one, and the animated edge to the header of the stage that follows in
\* the array when that stage has events
StageEdges(list, stageIndex) ==
  LET stage == Stages[stageIndex]
      stageEvents == StageEvents(list, stage)
      within == [k \in 1..Len(stageEvents) |->
                   [source |-> IF k = 1 THEN StageId(stage) ELSE EventId(stage, k - 2),
                    target |-> EventId(stage, k - 1),
                    animated |-> FALSE]]
      toNext == IF stageIndex < Len(Stages)
                   /\ StageEvents(list, Stages[stageIndex + 1]) # <<>>
                THEN <<[source |-> EventId(stage, Len(stageEvents) - 1),
                        target |-> StageId(Stages[stageIndex + 1]),
                        animated |-> TRUE]>>
                ELSE <<>>
  IN IF stageEvents = <<>> THEN <<>> ELSE within \o toNext

\* the stages in the order their first event arrived
StagesByArrival(list) ==
  LET RECURSIVE Seen(_)
      Seen(i) == IF i = 0 THEN <<>>
                 ELSE LET before == Seen(i - 1)
                      IN IF list[i].stage \in Range(before) THEN before
                         ELSE Append(before, list[i].stage)
  IN Seen(Len(list))

\* nodes whose groups would follow the arrival of the stages
NodesByArrival(list) ==
  LET order == StagesByArrival(list)
      RECURSIVE From(_)
      From(i) == IF i > Len(order) THEN <<>>
                 ELSE StageNodes(list, order[i]) \o From(i + 1)
  IN From(1)

\* nodes of ReactFlowTimeline: stages.forEach
Nodes(list) ==
  LET RECURSIVE From(_)
      From(i) == IF i > Len(Stages) THEN <<>>
                 ELSE StageNodes(list, Stages[i]) \o From(i + 1)
  IN From(1)

\* edges of ReactFlowTimeline
Edges(list) ==
  LET RECURSIVE From(_)
      From(i) == IF i > Len(Stages) THEN <<>>
                 ELSE StageEdges(list, i) \o From(i + 1)
  IN From(1)

\* the status ApiClient.getDeploymentInfo derives
GetDeploymentInfoStatus(list) ==
  LET finals == {i \in 1..Len(list) : list[i].type = "status" /\ list[i].stage = "final"}
  IN IF finals = {} THEN "running"
     ELSE LET finalEvent == list[CHOOSE i \in finals : \A j \in finals : i <= j]
          IN IF TruthyStr(finalEvent, "status") THEN finalEvent.status ELSE "running"

\* what is derived from the list
Project(list) ==
  [stageStatus |-> [stage \in PopulatedStages(list) |-> StageStatus(list, stage)],
   eventStatus |-> [i \in 1..Len(list) |-> GetEventStatus(list[i])],
   runStatus |-> RunStatus(list),
   infoStatus |-> GetDeploymentInfoStatus(list),
   nodes |-> Nodes(list),
   edges |-> Edges(list)]

\* the recorded runs of mock-timeline-data
mockTimelineEvents ==
  <<
    [type |-> "status", stage |-> "clone", message |-> <<"S", "t", "a", "r", "t", "i", "n", "g", " ", "r", "e", "p", "o", "s", "i", "t", "o", "r", "y", " ", "c", "l", "o", "n", "e">>, ts |-> 1704067200, deployment_id |-> "mock-deployment-123"],
    [type |-> "status", stage |-> "clone", message |-> <<"C", "l", "o", "n", "i", "n", "g", " ", "f", "r", "o", "m", " ", "G", "i", "t", "H", "u", "b", " ", "r", "e", "p", "o", "s", "i", "t", "o", "r", "y">>, ts |-> 1704067205, deployment_id |-> "mock-deployment-123"],
    [type |-> "status", stage |-> "clone", message |-> <<"C", "l", "o", "n", "e", " ", "c", "o", "m", "p", "l", "e", "t", "e", "d", " ", "s", "u", "c", "c", "e", "s", "s", "f", "u", "l", "l", "y">>, ts |-> 1704067220, deployment_id |-> "mock-deployment-123"],
    [type |-> "status", stage |-> "architect", message |-> <<"S", "t", "a", "r", "t", "i", "n", "g", " ", "p", "r", "o", "j", "e", "c", "t", " ", "a", "n", "a", "l", "y", "s", "i", "s">>, ts |-> 1704067225, deployment_id |-> "mock-deployment-123"],
    [type |-> "trace", stage |-> "architect", subtype |-> <<"l", "l", "m", "_", "s", "t", "a", "r", "t">>, model |-> "claude-3-sonnet", ts |-> 1704067230, deployment_id |-> "mock-deployment-123"],
    [type |-> "trace", stage |-> "architect", subtype |-> <<"t", "o", "o", "l", "_", "s", "t", "a", "r", "t">>, tool |-> "file_analyzer", ts |-> 1704067235, deployment_id |-> "mock-deployment-123"],
    [type |-> "trace", stage |-> "architect", subtype |-> <<"t", "o", "o", "l", "_", "e", "n", "d">>, tool |-> "file_analyzer", ts |-> 1704067240, deployment_id |-> "mock-deployment-123"],
    [type |-> "trace", stage |-> "architect", subtype |-> <<"l", "l", "m", "_", "e", "n", "d">>, model |-> "claude-3-sonnet", ts |-> 1704067250, deployment_id |-> "mock-deployment-123"],
    [type |-> "status", stage |-> "architect", message |-> <<"G", "e", "n", "e", "r", "a", "t", "e", "d", " ", "D", "o", "c", "k", "e", "r", "f", "i", "l", "e", " ", "a", "n", "d", " ", "C", "I", "/", "C", "D", " ", "c", "o", "n", "f", "i", "g", "u", "r", "a", "t", "i", "o", "n">>, ts |-> 1704067255, deployment_id |-> "mock-deployment-123"],
    [type |-> "status", stage |-> "architect", message |-> <<"A", "r", "c", "h", "i", "t", "e", "c", "t", "u", "r", "e", " ", "a", "n", "a", "l", "y", "s", "i", "s", " ", "c", "o", "m", "p", "l", "e", "t", "e", "d">>, ts |-> 1704067260, deployment_id |-> "mock-deployment-123"],
    [type |-> "status", stage |-> "deps", message |-> <<"S", "t", "a", "r", "t", "i", "n", "g", " ", "d", "e", "p", "e", "n", "d", "e", "n", "c", "y", " ", "a", "n", "a", "l", "y", "s", "i", "s">>, ts |-> 1704067265, deployment_id |-> "mock-deployment-123"],
    [type |-> "trace", stage |-> "deps", subtype |-> <<"t", "o", "o", "l", "_", "s", "t", "a", "r", "t">>, tool |-> "package_scanner", ts |-> 1704067270, deployment_id |-> "mock-deployment-123"],
    [type |-> "status", stage |-> "deps", message |-> <<"A", "n", "a", "l", "y", "z", "i", "n", "g", " ", "p", "a", "c", "k", "a", "g", "e", ".", "j", "s", "o", "n", " ", "d", "e", "p", "e", "n", "d", "e", "n", "c", "i", "e", "s">>, ts |-> 1704067275, deployment_id |-> "mock-deployment-123"],
    [type |-> "status", stage |-> "deps", message |-> <<"F", "o", "u", "n", "d", " ", "2", " ", "s", "e", "c", "u", "r", "i", "t", "y", " ", "v", "u", "l", "n", "e", "r", "a", "b", "i", "l", "i", "t", "i", "e", "s">>, ts |-> 1704067280, deployment_id |-> "mock-deployment-123"],
    [type |-> "trace", stage |-> "deps", subtype |-> <<"t", "o", "o", "l", "_", "e", "n", "d">>, tool |-> "package_scanner", ts |-> 1704067285, deployment_id |-> "mock-deployment-123"],
    [type |-> "status", stage |-> "deps", message |-> <<"D", "e", "p", "e", "n", "d", "e", "n", "c", "y", " ", "a", "n", "a", "l", "y", "s", "i", "s", " ", "c", "o", "m", "p", "l", "e", "t", "e", "d">>, ts |-> 1704067290, deployment_id |-> "mock-deployment-123"],
    [type |-> "status", stage |-> "tests", message |-> <<"S", "t", "a", "r", "t", "i", "n", "g", " ", "t", "e", "s", "t", " ", "s", "u", "i", "t", "e", " ", "e", "x", "e", "c", "u", "t", "i", "o", "n">>, ts |-> 1704067295, deployment_id |-> "mock-deployment-123"],
    [type |-> "trace", stage |-> "tests", subtype |-> <<"t", "o", "o", "l", "_", "s", "t", "a", "r", "t">>, tool |-> "jest_runner", ts |-> 1704067300, deployment_id |-> "mock-deployment-123"],
    [type |-> "status", stage |-> "tests", message |-> <<"R", "u", "n", "n", "i", "n", "g", " ", "u", "n", "i", "t", " ", "t", "e", "s", "t", "s">>, ts |-> 1704067305, deployment_id |-> "mock-deployment-123"],
    [type |-> "status", stage |-> "tests", message |-> <<"R", "u", "n", "n", "i", "n", "g", " ", "i", "n", "t", "e", "g", "r", "a", "t", "i", "o", "n", " ", "t", "e", "s", "t", "s">>, ts |-> 1704067320, deployment_id |-> "mock-deployment-123"],
    [type |-> "trace", stage |-> "tests", subtype |-> <<"t", "o", "o", "l", "_", "e", "n", "d">>, tool |-> "jest_runner", ts |-> 1704067335, deployment_id |-> "mock-deployment-123"],
    [type |-> "status", stage |-> "tests", message |-> <<"A", "l", "l", " ", "t", "e", "s", "t", "s", " ", "p", "a", "s", "s", "e", "d", " ", "(", "2", "4", "/", "2", "4", ")">>, ts |-> 1704067340, deployment_id |-> "mock-deployment-123"],
    [type |-> "status", stage |-> "deployment", message |-> <<"S", "t", "a", "r", "t", "i", "n", "g", " ", "V", "e", "r", "c", "e", "l", " ", "d", "e", "p", "l", "o", "y", "m", "e", "n", "t">>, ts |-> 1704067345, deployment_id |-> "mock-deployment-123"],
    [type |-> "trace", stage |-> "deployment", subtype |-> <<"t", "o", "o", "l", "_", "s", "t", "a", "r", "t">>, tool |-> "vercel_cli", ts |-> 1704067350, deployment_id |-> "mock-deployment-123"],
    [type |-> "status", stage |-> "deployment", message |-> <<"B", "u", "i", "l", "d", "i", "n", "g", " ", "a", "p", "p", "l", "i", "c", "a", "t", "i", "o", "n">>, ts |-> 1704067355, deployment_id |-> "mock-deployment-123"],
    [type |-> "status", stage |-> "deployment", message |-> <<"U", "p", "l", "o", "a", "d", "i", "n", "g", " ", "b", "u", "i", "l", "d", " ", "a", "r", "t", "i", "f", "a", "c", "t", "s">>, ts |-> 1704067380, deployment_id |-> "mock-deployment-123"],
    [type |-> "trace", stage |-> "deployment", subtype |-> <<"t", "o", "o", "l", "_", "e", "n", "d">>, tool |-> "vercel_cli", ts |-> 1704067400, deployment_id |-> "mock-deployment-123"],
    [type |-> "status", stage |-> "deployment", message |-> <<"D", "e", "p", "l", "o", "y", "m", "e", "n", "t", " ", "s", "u", "c", "c", "e", "s", "s", "f", "u", "l">>, ts |-> 1704067405, deployment_id |-> "mock-deployment-123", deployment_url |-> "https://my-app-abc123.vercel.app"],
    [type |-> "status", stage |-> "incident_monitor", message |-> <<"S", "t", "a", "r", "t", "i", "n", "g", " ", "h", "e", "a", "l", "t", "h", " ", "m", "o", "n", "i", "t", "o", "r", "i", "n", "g">>, ts |-> 1704067410, deployment_id |-> "mock-deployment-123"],
    [type |-> "trace", stage |-> "incident_monitor", subtype |-> <<"t", "o", "o", "l", "_", "s", "t", "a", "r", "t">>, tool |-> "health_checker", ts |-> 1704067415, deployment_id |-> "mock-deployment-123"],
    [type |-> "status", stage |-> "incident_monitor", message |-> <<"C", "h", "e", "c", "k", "i", "n", "g", " ", "a", "p", "p", "l", "i", "c", "a", "t", "i", "o", "n", " ", "h", "e", "a", "l", "t", "h">>, ts |-> 1704067420, deployment_id |-> "mock-deployment-123"],
    [type |-> "status", stage |-> "incident_monitor", message |-> <<"A", "l", "l", " ", "h", "e", "a", "l", "t", "h", " ", "c", "h", "e", "c", "k", "s", " ", "p", "a", "s", "s", "e", "d">>, ts |-> 1704067440, deployment_id |-> "mock-deployment-123"],
    [type |-> "trace", stage |-> "incident_monitor", subtype |-> <<"t", "o", "o", "l", "_", "e", "n", "d">>, tool |-> "health_checker", ts |-> 1704067445, deployment_id |-> "mock-deployment-123"],
    [type |-> "status", stage |-> "incident_monitor", message |-> <<"M", "o", "n", "i", "t", "o", "r", "i", "n", "g", " ", "s", "e", "t", "u", "p", " ", "c", "o", "m", "p", "l", "e", "t", "e", "d">>, ts |-> 1704067450, deployment_id |-> "mock-deployment-123"],
    [type |-> "status", stage |-> "final", message |-> <<"P", "i", "p", "e", "l", "i", "n", "e", " ", "c", "o", "m", "p", "l", "e", "t", "e", "d", " ", "s", "u", "c", "c", "e", "s", "s", "f", "u", "l", "l", "y">>, ts |-> 1704067455, deployment_id |-> "mock-deployment-123", status |-> "succeeded"]
  >>

mockFailedTimelineEvents ==
  <<
    [type |-> "status", stage |-> "clone", message |-> <<"S", "t", "a", "r", "t", "i", "n", "g", " ", "r", "e", "p", "o", "s", "i", "t", "o", "r", "y", " ", "c", "l", "o", "n", "e">>, ts |-> 1704067200, deployment_id |-> "mock-failed-456"],
    [type |-> "status", stage |-> "clone", message |-> <<"C", "l", "o", "n", "e", " ", "c", "o", "m", "p", "l", "e", "t", "e", "d", " ", "s", "u", "c", "c", "e", "s", "s", "f", "u", "l", "l", "y">>, ts |-> 1704067220, deployment_id |-> "mock-failed-456"],
    [type |-> "status", stage |-> "architect", message |-> <<"S", "t", "a", "r", "t", "i", "n", "g", " ", "p", "r", "o", "j", "e", "c", "t", " ", "a", "n", "a", "l", "y", "s", "i", "s">>, ts |-> 1704067225, deployment_id |-> "mock-failed-456"],
    [type |-> "status", stage |-> "architect", message |-> <<"A", "r", "c", "h", "i", "t", "e", "c", "t", "u", "r", "e", " ", "a", "n", "a", "l", "y", "s", "i", "s", " ", "c", "o", "m", "p", "l", "e", "t", "e", "d">>, ts |-> 1704067260, deployment_id |-> "mock-failed-456"],
    [type |-> "status", stage |-> "deps", message |-> <<"S", "t", "a", "r", "t", "i", "n", "g", " ", "d", "e", "p", "e", "n", "d", "e", "n", "c", "y", " ", "a", "n", "a", "l", "y", "s", "i", "s">>, ts |-> 1704067265, deployment_id |-> "mock-failed-456"],
    [type |-> "status", stage |-> "deps", message |-> <<"D", "e", "p", "e", "n", "d", "e", "n", "c", "y", " ", "a", "n", "a", "l", "y", "s", "i", "s", " ", "c", "o", "m", "p", "l", "e", "t", "e", "d">>, ts |-> 1704067290, deployment_id |-> "mock-failed-456"],
    [type |-> "status", stage |-> "tests", message |-> <<"S", "t", "a", "r", "t", "i", "n", "g", " ", "t", "e", "s", "t", " ", "s", "u", "i", "t", "e", " ", "e", "x", "e", "c", "u", "t", "i", "o", "n">>, ts |-> 1704067295, deployment_id |-> "mock-failed-456"],
    [type |-> "status", stage |-> "tests", message |-> <<"R", "u", "n", "n", "i", "n", "g", " ", "u", "n", "i", "t", " ", "t", "e", "s", "t", "s">>, ts |-> 1704067305, deployment_id |-> "mock-failed-456"],
    [type |-> "status", stage |-> "tests", message |-> <<"T", "e", "s", "t", " ", "f", "a", "i", "l", "e", "d", ":", " ", "A", "u", "t", "h", "e", "n", "t", "i", "c", "a", "t", "i", "o", "n", " ", "m", "o", "d", "u", "l", "e", " ", "t", "e", "s", "t", "s", " ", "f", "a", "i", "l", "i", "n", "g">>, ts |-> 1704067320, deployment_id |-> "mock-failed-456", error |-> "TypeError: Cannot read property of undefined"],
    [type |-> "status", stage |-> "final", message |-> <<"P", "i", "p", "e", "l", "i", "n", "e", " ", "f", "a", "i", "l", "e", "d", " ", "d", "u", "r", "i", "n", "g", " ", "t", "e", "s", "t", "i", "n", "g", " ", "p", "h", "a", "s", "e">>, ts |-> 1704067325, deployment_id |-> "mock-failed-456", status |-> "failed", error |-> "Test suite execution failed"]
  >>

Recorded(name) == IF name = "success" THEN mockTimelineEvents ELSE mockFailedTimelineEvents

MsgStartingClone == <<"S", "t", "a", "r", "t", "i", "n", "g", " ", "r", "e", "p", "o", "s", "i", "t", "o", "r", "y", " ", "c", "l", "o", "n", "e">>
MsgCloneCompleted == <<"C", "l", "o", "n", "e", " ", "c", "o", "m", "p", "l", "e", "t", "e", "d", " ", "s", "u", "c", "c", "e", "s", "s", "f", "u", "l", "l", "y">>
MsgShouting == <<"R", "E", "S", "T", "A", "R", "T", "I", "N", "G", " ", "C", "O", "M", "P", "L", "E", "T", "E", "D">>
MsgRunningTests == <<"R", "u", "n", "n", "i", "n", "g", " ", "u", "n", "i", "t", " ", "t", "e", "s", "t", "s">>

Messages == {MsgStartingClone, MsgCloneCompleted, MsgShouting, MsgRunningTests}

Subtypes == {<<"l", "l", "m", "_", "s", "t", "a", "r", "t">>,
             <<"l", "l", "m", "_", "e", "n", "d">>,
             <<"t", "o", "o", "l", "_", "s", "t", "a", "r", "t">>,
             <<"t", "o", "o", "l", "_", "e", "n", "d">>,
             <<"a", "g", "e", "n", "t", "_", "d", "e", "l", "t", "a">>}

\* an optional field: absent, or present with one of the values
Opt(field, values) == {EmptyMap} \cup {field :> v : v \in values}

\* the events of the wire schema the projection is fed
EventUniverse ==
  {[type |-> "status", stage |-> "tests", ts |-> 1] @@ m @@ e @@ st :
      m \in Opt("message", Messages), e \in Opt("error", {"", "x"}),
      st \in Opt("status", {"succeeded", "failed"})}
    \cup {[type |-> "status", stage |-> "final", ts |-> 2] @@ e @@ st :
            e \in Opt("error", {"", "x"}),
            st \in Opt("status", {"running", "succeeded", "failed"})}
    \cup {[type |-> "status", stage |-> "clone", ts |-> 3, message |-> MsgStartingClone]}
    \cup {[type |-> "status", stage |-> "replay", ts |-> 4, message |-> MsgStartingClone]}
    \cup {[type |-> "trace", stage |-> "tests", ts |-> 1, subtype |-> sub] @@ e :
            sub \in Subtypes, e \in Opt("error", {"x"})}

\* an event arrives and the timeline is projected again
FeedEvent(e) ==
  /\ scenario \in {"none", "free"}
  /\ Len(events) < MaxFeed
  /\ scenario' = "free"
  /\ events' = Append(events, e)
  /\ projection' = Project(events')
  /\ UNCHANGED notProjector

\* the next event of a recorded run arrives
FeedRecorded(name) ==
  /\ scenario \in {"none", name}
  /\ Len(events) < Len(Recorded(name))
  /\ scenario' = name
  /\ events' = Append(events, Recorded(name)[Len(events) + 1])
  /\ projection' = Project(events')
  /\ UNCHANGED notProjector

ProjectorInit ==
  /\ events = <<>>
  /\ projection = Project(<<>>)
  /\ scenario = "none"

NextProjector ==
  \/ \E e \in EventUniverse : FeedEvent(e)
  \/ \E name \in {"success", "failed"} : FeedRecorded(name)

(***************************************************************************)
(* Live transport of the monitor: useDeploymentWebSocket.connect and       *)
(* disconnect, its socket handlers and its deploymentId effect.            *)
(***************************************************************************)
\* the deploymentId argument: null ("none") or a run
HookIds == {"none"} \cup Runs

\* reconnectTimeoutRef.current = null
NoReconnectTimeout == "null"

\* disconnect(), from the sockets rs and wsRef.current = ref
HookDisconnectResult(rs, ref) ==
  [readyState |-> IF ref # 0 THEN [rs EXCEPT ![ref] = "CLOSING"] ELSE rs,
   wsRef |-> 0,
   connectionStatus |-> "disconnected",
   reconnectTimeoutRef |-> NoReconnectTimeout]

\* connect() with deploymentId = id, from the sockets rs, wsRef.current = ref and
\* connectionStatus = st; throws: new WebSocket(wsUrl) throws
HookConnectResult(id, rs, ref, st, timer, throws) ==
  IF id = "none"
  THEN [readyState |-> rs, wsRef |-> ref, connectionStatus |-> st,
        reconnectTimeoutRef |-> timer]
  ELSE IF ref # 0 /\ rs[ref] = "OPEN"
  THEN [readyState |-> rs, wsRef |-> ref, connectionStatus |-> st,
        reconnectTimeoutRef |-> NoReconnectTimeout]
  ELSE IF throws
  THEN [readyState |-> rs, wsRef |-> ref, connectionStatus |-> "error",
        reconnectTimeoutRef |-> NoReconnectTimeout]
  ELSE LET new == CHOOSE s \in Sockets :
                    rs[s] = "NONE" /\ \A t \in Sockets : rs[t] = "NONE" => s <= t
       IN [readyState |-> [rs EXCEPT ![new] = "CONNECTING"], wsRef |-> new,
           connectionStatus |-> "connecting",
           reconnectTimeoutRef |-> NoReconnectTimeout]

\* the hook's state becomes r
HookBecomes(r) ==
  /\ hookReadyState' = r.readyState
  /\ wsRef' = r.wsRef
  /\ connectionStatus' = r.connectionStatus
  /\ reconnectTimeoutRef' = r.reconnectTimeoutRef

\* connect() called through the hook's result
HookConnect(throws) ==
  /\ \E s \in Sockets : hookReadyState[s] = "NONE"
  /\ HookBecomes(HookConnectResult(hookDeploymentId, hookReadyState, wsRef,
                                   connectionStatus, reconnectTimeoutRef, throws))
  /\ hookLastOp' = "connect"
  /\ UNCHANGED hookDeploymentId
  /\ UNCHANGED notHook

\* disconnect() called through the hook's result (stopMonitoring)
HookDisconnect ==
  /\ HookBecomes(HookDisconnectResult(hookReadyState, wsRef))
  /\ hookLastOp' = "disconnect"
  /\ UNCHANGED hookDeploymentId
  /\ UNCHANGED notHook

\* the deploymentId argument changes: the effect's clean-up calls disconnect(),
\* then the effect calls connect() for a run and disconnect() for null
HookSetDeploymentId(id, throws) ==
  /\ id # hookDeploymentId
  /\ LET cleaned == HookDisconnectResult(hookReadyState, wsRef)
     IN /\ id # "none" => \E s \in Sockets : cleaned.readyState[s] = "NONE"
        /\ HookBecomes(IF id = "none"
                       THEN HookDisconnectResult(cleaned.readyState, cleaned.wsRef)
                       ELSE HookConnectResult(id, cleaned.readyState, cleaned.wsRef,
                                              cleaned.connectionStatus,
                                              cleaned.reconnectTimeoutRef, throws))
  /\ hookDeploymentId' = id
  /\ hookLastOp' = IF id = "none" THEN "clearId" ELSE "setId"
  /\ UNCHANGED notHook

\* ws.onopen of socket s
HookSocketOpen(s) ==
  /\ hookReadyState[s] = "CONNECTING"
  /\ hookReadyState' = [hookReadyState EXCEPT ![s] = "OPEN"]
  /\ connectionStatus' = "connected"
  /\ hookLastOp' = IF s = wsRef THEN "open" ELSE "lateOpen"
  /\ UNCHANGED <<hookDeploymentId, wsRef, reconnectTimeoutRef>>
  /\ UNCHANGED notHook

\* ws.onclose of socket s: the transport failed to open, dropped, or close() ended
HookSocketClose(s) ==
  /\ hookReadyState[s] \in {"CONNECTING", "OPEN", "CLOSING"}
  /\ hookReadyState' = [hookReadyState EXCEPT ![s] = "NONE"]
  /\ connectionStatus' = "disconnected"
  /\ wsRef' = 0
  /\ hookLastOp' = IF s = wsRef THEN "close" ELSE "lateClose"
  /\ UNCHANGED <<hookDeploymentId, reconnectTimeoutRef>>
  /\ UNCHANGED notHook

\* an onerror that would also close the socket and drop the reference
HookSocketErrorCloses(s) ==
  /\ hookReadyState[s] \in {"CONNECTING", "OPEN"}
  /\ connectionStatus' = "error"
  /\ hookReadyState' = [hookReadyState EXCEPT ![s] = "CLOSING"]
  /\ wsRef' = IF s = wsRef THEN 0 ELSE wsRef
  /\ hookLastOp' = IF s = wsRef THEN "error" ELSE "lateError"
  /\ UNCHANGED <<hookDeploymentId, reconnectTimeoutRef>>
  /\ UNCHANGED notHook

\* ws.onerror of socket s
HookSocketError(s) ==
  /\ hookReadyState[s] \in {"CONNECTING", "OPEN"}
  /\ connectionStatus' = "error"
  /\ hookLastOp' = IF s = wsRef THEN "error" ELSE "lateError"
  /\ UNCHANGED <<hookDeploymentId, wsRef, hookReadyState, reconnectTimeoutRef>>
  /\ UNCHANGED notHook

\* mounted with deploymentId = null: the effect has called disconnect()
HookInit ==
  /\ hookDeploymentId = "none"
  /\ wsRef = 0
  /\ hookReadyState = [s \in Sockets |-> "NONE"]
  /\ connectionStatus = "disconnected"
  /\ reconnectTimeoutRef = NoReconnectTimeout
  /\ hookLastOp = "init"

NextHook ==
  \/ \E throws \in BOOLEAN : HookConnect(throws)
  \/ HookDisconnect
  \/ \E id \in HookIds, throws \in BOOLEAN : HookSetDeploymentId(id, throws)
  \/ \E s \in Sockets : HookSocketOpen(s)
  \/ \E s \in Sockets : HookSocketClose(s)
  \/ \E s \in Sockets : HookSocketError(s)

(***************************************************************************)
(* Push messages on a transport.  A component mounts one of the two        *)
(* transports of websocket.ts: useDeploymentWebSocket (DeploymentMonitor)  *)
(* or useWebSocket with its WebSocketManager.  A message event is          *)
(* delivered to the onmessage of a socket that is OPEN.                    *)
(***************************************************************************)
NothingNotified == [type |-> "null"]

\* what the push channel delivers in the runs of SpecPush
TransportMsgs ==
  {Undecodable,
   [type |-> "status", stage |-> "clone", ts |-> 1],
   [type |-> "agent_outputs", stage |-> "clone", outputs |-> [a |-> 1]]}

\* what the push channel delivers to the manager in the runs of SpecPush
ManagerMsgs == {Undecodable, [type |-> "status", stage |-> "clone", ts |-> 1]}

\* the component calls useDeploymentWebSocket or useWebSocket
Mount(c) ==
  /\ consumer = "none"
  /\ consumer' = c
  /\ UNCHANGED notifiedEvent
  /\ UNCHANGED notTransport

\* ws.onmessage of a socket of useDeploymentWebSocket
HookSocketMessage(s, m) ==
  /\ hookReadyState[s] = "OPEN"
  /\ HookOnMessage(m)

\* ws.onmessage of a socket of the manager: notifyEvent(data) unless
\* JSON.parse throws
SocketMessage(s, m) ==
  /\ readyState[s] = "OPEN"
  /\ notifiedEvent' = IF Decodable(m) THEN m ELSE Discard(notifiedEvent)
  /\ UNCHANGED consumer
  /\ UNCHANGED notTransport

TransportInit ==
  /\ consumer = "none"
  /\ notifiedEvent = NothingNotified

NextPush ==
  \/ \E c \in {"hook", "manager"} : Mount(c)
  \/ consumer = "hook" /\ \E throws \in BOOLEAN : HookConnect(throws)
  \/ consumer = "hook" /\ HookDisconnect
  \/ consumer = "hook" /\ \E id \in HookIds, throws \in BOOLEAN : HookSetDeploymentId(id, throws)
  \/ consumer = "hook" /\ \E s \in Sockets : HookSocketOpen(s)
  \/ consumer = "hook" /\ \E s \in Sockets : HookSocketClose(s)
  \/ consumer = "hook" /\ \E s \in Sockets : HookSocketError(s)
  \/ consumer = "hook" /\ \E s \in Sockets, m \in TransportMsgs : HookSocketMessage(s, m)
  \/ consumer = "hook" /\ ClearEvents
  \/ consumer = "manager" /\ \E throws \in BOOLEAN : Connect(throws)
  \/ consumer = "manager" /\ Disconnect
  \/ consumer = "manager" /\ \E s \in Sockets : SocketOpen(s)
  \/ consumer = "manager" /\ \E s \in Sockets : SocketClose(s)
  \/ consumer = "manager" /\ \E s \in Sockets : SocketError(s)
  \/ consumer = "manager" /\ \E i \in 1..MaxTimers, throws \in BOOLEAN : ReconnectTimerFire(i, throws)
  \/ consumer = "manager" /\ \E s \in Sockets, m \in ManagerMsgs : SocketMessage(s, m)

(***************************************************************************)
(* Poll mode: useDeploymentEvents.  The state setters take effect at the   *)
(* next render; a callback (interval tick, settled request) runs with the  *)
(* values its closure captured at the render that created it.  Render is   *)
(* the commit of a render with its effects; timers and settled requests    *)
(* are not ordered with respect to it.                                     *)
(***************************************************************************)
NoInterval == [armed |-> FALSE, deploymentId |-> "none", isPolling |-> FALSE]

NoError == "null"

\* what the callback store of run id may answer with ok: true
Snapshots(id) ==
  {[ok |-> TRUE],
   [ok |-> TRUE, events |-> <<[deployment_id |-> id, ts |-> 1]>>,
    agent_outputs |-> [clone |-> [a |-> 1]]]}

\* how a getEventsFromCallback call may end: a response, or a rejection
Outcomes(id) ==
  Snapshots(id) \cup {[ok |-> FALSE]} \cup {[rejected |-> msg] : msg \in {"Network error"}}

\* the values the effects depend on, as of the latest state
CurrentDeps ==
  [deploymentId |-> pollDeploymentId, isConnected |-> isConnected, isPolling |-> isPolling]

\* a render with changed dependencies has not committed its effects yet
RenderPending == rendered # CurrentDeps

\* if (!deploymentId || isPolling) return
PollGuard(id, polling) == id = "none" \/ polling

\* pollEvents() up to its await, called through a closure over (id, closurePolling)
PollEventsCall(id, closurePolling, polling, pending) ==
  IF PollGuard(id, closurePolling)
  THEN [isPolling |-> polling, fetches |-> pending]
  ELSE [isPolling |-> TRUE, fetches |-> Append(pending, id)]

\* the poll effect of a render with dependencies d: clean-up of the previous
\* interval, the early return, setInterval(pollEvents) and the initial poll
PollEffect(d, polling, pending) ==
  IF d.deploymentId = "none" \/ ~d.isConnected
  THEN [interval |-> NoInterval, isPolling |-> polling, fetches |-> pending]
  ELSE LET call == PollEventsCall(d.deploymentId, d.isPolling, polling, pending)
       IN [interval |-> [armed |-> TRUE, deploymentId |-> d.deploymentId,
                         isPolling |-> d.isPolling],
           isPolling |-> call.isPolling, fetches |-> call.fetches]

\* setEvents / setAgentOutputs after a failed fetch that would clear the store
KeptAfterFailureCleared(prev, empty) == empty

\* a failed fetch leaves events and agentOutputs as they are
KeptAfterFailure(prev, empty) == prev

\* the component is rendered with another deploymentId argument
PollSetDeploymentId(id) ==
  /\ id # pollDeploymentId
  /\ pollDeploymentId' = id
  /\ pollLastOp' = IF id = "none" THEN "clearId" ELSE "setId"
  /\ UNCHANGED <<polledEvents, polledAgentOutputs, isConnected, pollError, isPolling,
                 fetches, registrations, interval, rendered>>
  /\ UNCHANGED notPoll

\* the effects of the latest render run: the first effect when deploymentId
\* changed (register the callback for a run, reset the state for null), then
\* the poll effect
Render ==
  /\ RenderPending
  /\ LET d == CurrentDeps
         idChanged == d.deploymentId # rendered.deploymentId
         reset == idChanged /\ d.deploymentId = "none"
         r == PollEffect(d, isPolling, fetches)
     IN /\ Len(r.fetches) <= MaxInFlight
        /\ rendered' = d
        /\ registrations' = IF idChanged /\ d.deploymentId # "none"
                            THEN registrations \cup {d.deploymentId}
                            ELSE registrations
        /\ polledEvents' = IF reset THEN <<>> ELSE polledEvents
        /\ polledAgentOutputs' = IF reset THEN EmptyMap ELSE polledAgentOutputs
        /\ isConnected' = IF reset THEN FALSE ELSE isConnected
        /\ pollError' = IF reset THEN NoError ELSE pollError
        /\ interval' = r.interval
        /\ isPolling' = r.isPolling
        /\ fetches' = r.fetches
  /\ UNCHANGED <<pollDeploymentId, pollLastOp>>
  /\ UNCHANGED notPoll

\* registerCallback() called through the hook's result
RegisterCallback ==
  /\ pollDeploymentId # "none"
  /\ registrations' = registrations \cup {pollDeploymentId}
  /\ pollLastOp' = "register"
  /\ UNCHANGED <<pollDeploymentId, polledEvents, polledAgentOutputs, isConnected,
                 pollError, isPolling, fetches, interval, rendered>>
  /\ UNCHANGED notPoll

\* apiClient.registerCallback settles: resolved (ok) or rejected
RegisterSettles(id, ok) ==
  /\ id \in registrations
  /\ registrations' = registrations \ {id}
  /\ isConnected' = ok
  /\ pollError' = IF ok THEN NoError ELSE "Failed to register callback"
  /\ pollLastOp' = IF ok THEN "registered" ELSE "registerFailed"
  /\ UNCHANGED <<pollDeploymentId, polledEvents, polledAgentOutputs, isPolling,
                 fetches, interval, rendered>>
  /\ UNCHANGED notPoll

\* the interval fires and calls the pollEvents it was given
IntervalTick ==
  /\ interval.armed
  /\ LET call == PollEventsCall(interval.deploymentId, interval.isPolling,
                                isPolling, fetches)
     IN /\ Len(call.fetches) <= MaxInFlight
        /\ isPolling' = call.isPolling
        /\ fetches' = call.fetches
  /\ pollLastOp' = "tick"
  /\ UNCHANGED <<pollDeploymentId, polledEvents, polledAgentOutputs, isConnected,
                 pollError, registrations, interval, rendered>>
  /\ UNCHANGED notPoll

\* the i-th getEventsFromCallback call settles with outcome r: the rest of
\* pollEvents runs (try / catch / finally)
FetchSettles(i, r) ==
  /\ i \in 1..Len(fetches)
  /\ r \in Outcomes(fetches[i])
  /\ IF "rejected" \in DOMAIN r
     THEN /\ pollError' = r.rejected
          /\ polledEvents' = KeptAfterFailure(polledEvents, <<>>)
          /\ polledAgentOutputs' = KeptAfterFailure(polledAgentOutputs, EmptyMap)
     ELSE IF r.ok
     THEN /\ polledEvents' = IF "events" \in DOMAIN r THEN r.events ELSE <<>>
          /\ polledAgentOutputs' =
               IF "agent_outputs" \in DOMAIN r THEN r.agent_outputs ELSE EmptyMap
          /\ pollError' = NoError
     ELSE /\ pollError' = "Failed to fetch events"
          /\ polledEvents' = KeptAfterFailure(polledEvents, <<>>)
          /\ polledAgentOutputs' = KeptAfterFailure(polledAgentOutputs, EmptyMap)
  /\ isPolling' = FALSE
  /\ fetches' = RemoveAt(fetches, i)
  /\ pollLastOp' = IF "rejected" \in DOMAIN r THEN "fetchRejected"
                   ELSE IF r.ok THEN "fetched" ELSE "fetchNotOk"
  /\ UNCHANGED <<pollDeploymentId, isConnected, registrations, interval, rendered>>
  /\ UNCHANGED notPoll

\* mounted with deploymentId = null, effects run
PollInit ==
  /\ pollDeploymentId = "none"
  /\ polledEvents = <<>>
  /\ polledAgentOutputs = EmptyMap
  /\ isConnected = FALSE
  /\ pollError = NoError
  /\ isPolling = FALSE
  /\ fetches = <<>>
  /\ registrations = {}
  /\ interval = NoInterval
  /\ rendered = [deploymentId |-> "none", isConnected |-> FALSE, isPolling |-> FALSE]
  /\ pollLastOp = "init"

NextPoll ==
  \/ \E id \in HookIds : PollSetDeploymentId(id)
  \/ Render
  \/ RegisterCallback
  \/ \E id \in Runs, ok \in BOOLEAN : RegisterSettles(id, ok)
  \/ IntervalTick
  \/ \E i \in 1..MaxInFlight : \E r \in UNION {Outcomes(id) : id \in Runs} :
       FetchSettles(i, r)

(***************************************************************************)
(* The replay page: ReplayViewer.fetchDeployment and ApiClient             *)
(* .getReplayEvents.  The index of the selected event belongs to the       *)
(* replay controller above; here selectedEvent is the event fetchDeployment*)
(* selects.                                                                *)
(***************************************************************************)
PageIds == {"none", "mock-success", "sample-deployment-123", "mock-failed"} \cup Runs

NoDeployment == [deployment_id |-> "none"]

NoSelection == [type |-> "null"]

\* event lists GET /replay/{id} may answer for a run
ReplayLists(id) ==
  LET e(stage) == [type |-> "status", stage |-> stage, message |-> <<>>, ts |-> 1,
                   deployment_id |-> id]
  IN {<<>>,
      <<e("clone")>>,
      <<e("clone"), e("final")>>,
      <<e("clone"), Spread(e("final"), [status |-> "failed"])>>,
      <<e("clone"), Spread(e("final"), [status |-> ""])>>}

\* how getReplayEvents(id) may end: an array, another JSON value, or a
\* rejection (network failure, or !response.ok)
ReplayOutcomes(id) ==
  {[events |-> l] : l \in ReplayLists(id)} \cup {[notArray |-> TRUE], [rejected |-> TRUE]}

\* events.find((e) => e.stage === "final") and the status derived from it
FinalStatus(list) ==
  LET finals == {i \in 1..Len(list) : list[i].stage = "final"}
  IN IF finals = {} THEN "succeeded"
     ELSE LET finalEvent == list[CHOOSE i \in finals : \A j \in finals : i <= j]
          IN IF TruthyStr(finalEvent, "status")
             THEN finalEvent.status
             ELSE "succeeded"

\* catch { events = mockTimelineEvents }
EventsAfterRejection(id) == [events |-> mockTimelineEvents]

\* fetchDeployment from the point where events is known (or .find throws)
\* to the end of finally
PageShows(id, r) ==
  /\ IF "events" \in DOMAIN r
     THEN /\ deployment' = [deployment_id |-> id, status |-> FinalStatus(r.events),
                            events |-> r.events]
          /\ selectedEvent' = IF Len(r.events) > 0 THEN r.events[1] ELSE selectedEvent
          /\ UNCHANGED pageError
     ELSE /\ pageError' = "events.find is not a function"
          /\ UNCHANGED <<deployment, selectedEvent>>
  /\ loading' = FALSE

\* the route parameter changes: the effect calls fetchDeployment, which
\* finishes at once for the mock identifiers and awaits the request otherwise
PageOpen(id) ==
  /\ id \in PageIds \ {"none", pageDeploymentId}
  /\ pageDeploymentId' = id
  /\ IF id \in {"mock-success", "sample-deployment-123"}
     THEN PageShows(id, [events |-> mockTimelineEvents]) /\ UNCHANGED replayFetches
     ELSE IF id = "mock-failed"
     THEN PageShows(id, [events |-> mockFailedTimelineEvents]) /\ UNCHANGED replayFetches
     ELSE /\ Len(replayFetches) < MaxInFlight
          /\ replayFetches' = Append(replayFetches, id)
          /\ loading' = TRUE
          /\ UNCHANGED <<deployment, selectedEvent, pageError>>
  /\ pageLastOp' = [op |-> "open", id |-> id]
  /\ UNCHANGED notPage

\* the i-th getReplayEvents call settles with outcome r
ReplayFetchSettles(i, r) ==
  /\ i \in 1..Len(replayFetches)
  /\ r \in ReplayOutcomes(replayFetches[i])
  /\ replayFetches' = RemoveAt(replayFetches, i)
  /\ PageShows(replayFetches[i],
               IF "rejected" \in DOMAIN r THEN EventsAfterRejection(replayFetches[i]) ELSE r)
  /\ pageLastOp' = [op |-> IF "rejected" \in DOMAIN r THEN "fetchFailed" ELSE "fetched",
                    id |-> replayFetches[i]]
  /\ UNCHANGED pageDeploymentId
  /\ UNCHANGED notPage

\* before the page is opened
PageInit ==
  /\ pageDeploymentId = "none"
  /\ deployment = NoDeployment
  /\ loading = TRUE
  /\ pageError = NoError
  /\ selectedEvent = NoSelection
  /\ replayFetches = <<>>
  /\ pageLastOp = [op |-> "init", id |-> "none"]

NextPage ==
  \/ \E id \in PageIds : PageOpen(id)
  \/ \E i \in 1..MaxInFlight : \E r \in UNION {ReplayOutcomes(id) : id \in Runs} :
       ReplayFetchSettles(i, r)

(***************************************************************************)
(* The live monitor: DeploymentMonitor over useDeploymentWebSocket.  The   *)
(* hook is given isMonitoring ? deploymentId : null.                       *)
(***************************************************************************)
\* the props a monitor may be mounted with; "" is the default initialDeploymentId
MonitorProps == [autoStart : BOOLEAN, initialDeploymentId : {""} \cup Runs]

\* the hook's effect for the argument id: the clean-up's disconnect(), then
\* connect() for a run and disconnect() for null
HookEffect(id, throws) ==
  LET cleaned == HookDisconnectResult(hookReadyState, wsRef)
  IN /\ id # "none" => \E s \in Sockets : cleaned.readyState[s] = "NONE"
     /\ HookBecomes(IF id = "none"
                    THEN HookDisconnectResult(cleaned.readyState, cleaned.wsRef)
                    ELSE HookConnectResult(id, cleaned.readyState, cleaned.wsRef,
                                           cleaned.connectionStatus,
                                           cleaned.reconnectTimeoutRef, throws))
     /\ hookDeploymentId' = id
     /\ hookLastOp' = IF id = "none" THEN "clearId" ELSE "setId"

\* clearEvents() of the hook, called by the monitor
MonitorClearEvents ==
  /\ wsEvents' = <<>>
  /\ wsAgentOutputs' = EmptyMap
  /\ pushArrived' = <<>>
  /\ pushFragments' = <<>>
  /\ UNCHANGED <<deploymentEvents, deploymentAgentOutputs, pollArrived, pollFragments,
                 nDelivered, undecodedAt>>

\* the monitor is mounted with its props
MonitorMount(props) ==
  /\ monitorLastOp = "init"
  /\ monitorProps' = props
  /\ monitorDeploymentId' = props.initialDeploymentId
  /\ monitorLastOp' = "mount"
  /\ UNCHANGED isMonitoring
  /\ UNCHANGED notMonitor

\* the user types a deployment id; the input is disabled while monitoring
MonitorInput(id) ==
  /\ monitorLastOp # "init"
  /\ ~isMonitoring
  /\ monitorDeploymentId' = id
  /\ UNCHANGED <<monitorProps, isMonitoring, monitorLastOp>>
  /\ UNCHANGED notMonitor

\* if (autoStart && initialDeploymentId && !isMonitoring)
AutoStarts(props, monitoring) ==
  props.autoStart /\ props.initialDeploymentId # "" /\ ~monitoring

\* the auto-start effect (it runs after every render in which isMonitoring
\* changed): setDeploymentId, setIsMonitoring(true), clearEvents(); the hook's
\* effect then connects
AutoStartEffect(throws) ==
  /\ monitorLastOp # "init"
  /\ AutoStarts(monitorProps, isMonitoring)
  /\ monitorDeploymentId' = monitorProps.initialDeploymentId
  /\ isMonitoring' = TRUE
  /\ MonitorClearEvents
  /\ HookEffect(monitorProps.initialDeploymentId, throws)
  /\ monitorLastOp' = "autoStart"
  /\ UNCHANGED monitorProps
  /\ UNCHANGED notMonitorHookStore

\* startMonitoring (the button shown while not monitoring, once the effects of
\* the render have run); the hook's effect then connects
StartMonitoring(throws) ==
  /\ monitorLastOp # "init"
  /\ ~isMonitoring
  /\ ~AutoStarts(monitorProps, isMonitoring)
  /\ monitorDeploymentId # ""
  /\ isMonitoring' = TRUE
  /\ MonitorClearEvents
  /\ HookEffect(monitorDeploymentId, throws)
  /\ monitorLastOp' = "start"
  /\ UNCHANGED <<monitorProps, monitorDeploymentId>>
  /\ UNCHANGED notMonitorHookStore

\* stopMonitoring (the button shown while monitoring): setIsMonitoring(false),
\* disconnect(); the hook's effect for null disconnects again
StopMonitoring ==
  /\ isMonitoring
  /\ isMonitoring' = FALSE
  /\ HookEffect("none", FALSE)
  /\ monitorLastOp' = "stop"
  /\ UNCHANGED <<monitorProps, monitorDeploymentId>>
  /\ UNCHANGED storeVars
  /\ UNCHANGED notMonitorHookStore

MonitorInit ==
  /\ monitorProps = [autoStart |-> FALSE, initialDeploymentId |-> ""]
  /\ monitorDeploymentId = ""
  /\ isMonitoring = FALSE
  /\ monitorLastOp = "init"

NextMonitor ==
  \/ \E props \in MonitorProps : MonitorMount(props)
  \/ \E id \in {""} \cup Runs : MonitorInput(id)
  \/ \E throws \in BOOLEAN : AutoStartEffect(throws)
  \/ \E throws \in BOOLEAN : StartMonitoring(throws)
  \/ StopMonitoring
  \/ \E s \in Sockets : HookSocketOpen(s)
  \/ \E s \in Sockets : HookSocketClose(s)
  \/ \E s \in Sockets : HookSocketError(s)
  \/ \E s \in Sockets, m \in TransportMsgs : HookSocketMessage(s, m)

(***************************************************************************)
(* Specifications.                                                         *)
(***************************************************************************)
Init ==
  /\ StoreInit
  /\ ManagerInit
  /\ ReplayInit
  /\ ProjectorInit
  /\ HookInit
  /\ PollInit
  /\ PageInit
  /\ TransportInit
  /\ MonitorInit

SpecStore == Init /\ [][NextStore]_vars

SpecManager == Init /\ [][NextManager]_vars

SpecReplay == Init /\ [][NextReplay]_vars

SpecProjector == Init /\ [][NextProjector]_vars

SpecHook == Init /\ [][NextHook]_vars

SpecPoll == Init /\ [][NextPoll]_vars

SpecPage == Init /\ [][NextPage]_vars

SpecPush == Init /\ [][NextPush]_vars

\* the browser fires an armed timeout, and React runs the effects it owes
SpecMonitor == Init /\ [][NextMonitor]_vars

SpecReplayLists == Init /\ [][NextReplayLists]_vars

SpecReplayFair == SpecReplay /\ WF_vars(Tick) /\ WF_vars(RunEffects)

(***************************************************************************)
(* Properties of the Event & Output Store (SpecStore).                     *)
(***************************************************************************)
RECURSIVE LastWriteWins(_)
\* the mapping a sequence of fragments asks for: per stage and key, the value of
\* the last fragment that contained the key
LastWriteWins(frags) ==
  IF frags = <<>> THEN EmptyMap
  ELSE LET before == LastWriteWins(SubSeq(frags, 1, Len(frags) - 1))
           last == frags[Len(frags)]
           old == IF last.stage \in DOMAIN before THEN before[last.stage] ELSE EmptyMap
       IN SetKey(before, last.stage, Spread(old, last.outputs))

NotControl(e) == e.type # "agent_outputs"

NonControl(log) == SelectSeq(log, NotControl)

IsPrefix(s, t) == Len(s) <= Len(t) /\ SubSeq(t, 1, Len(s)) = s

\* C1: on the push path and on the callback path the accumulated outputs are
\* the per-key last-write-wins merge of the fragments delivered so far: a key
\* holds the value of the last fragment of its stage that contained it, and a
\* key written earlier survives a later fragment that does not mention it.
C1_PerKeyLastWriteWins ==
  /\ wsAgentOutputs = LastWriteWins(pushFragments)
  /\ \A id \in Runs :
       OutputsOf(deploymentAgentOutputs, id) = LastWriteWins(EventsOf(pollFragments, id))

\* C2: the event log holds the non-control events that arrived, in arrival
\* order, whatever their ts and however alike they are; between two clears the
\* log only grows at its tail.
C2_LogIsArrivalOrder ==
  /\ [](/\ wsEvents = NonControl(pushArrived)
        /\ \A id \in Runs :
             NonControl(EventsOf(deploymentEvents, id)) = NonControl(EventsOf(pollArrived, id)))
  /\ [][/\ ClearEvents \/ IsPrefix(wsEvents, wsEvents')
        /\ \A id \in Runs :
             IsPrefix(EventsOf(deploymentEvents, id), EventsOf(deploymentEvents', id))]_vars

\* C2 witness: two events logged by the push hook against their ts order.
C2_Witness ==
  /\ Len(wsEvents) = 2
  /\ wsEvents[1].ts = 2
  /\ wsEvents[2].ts = 1
  /\ wsEvents = pushArrived

\* C3: on both paths a control message {type: "agent_outputs", stage, outputs}
\* is applied to the output mapping and never appended to the event log: no
\* log holds an element of type "agent_outputs".
C3_ControlNeverLogged ==
  /\ \A e \in Range(wsEvents) : NotControl(e)
  /\ \A e \in Range(pushArrived) :
       PushFragment(e) # {} => e.stage \in DOMAIN wsAgentOutputs
  /\ \A id \in Runs :
       /\ \A e \in Range(EventsOf(deploymentEvents, id)) : NotControl(e)
       /\ \A e \in Range(EventsOf(pollArrived, id)) :
            PushFragment(e) # {} =>
              /\ e.stage \in DOMAIN OutputsOf(deploymentAgentOutputs, id)
              /\ DOMAIN e.outputs \subseteq DOMAIN OutputsOf(deploymentAgentOutputs, id)[e.stage]

\* a state where the claim C31 is at work: the route holds an event of run B
\* and has then stored an event with outputs for run A
C31_Witness ==
  /\ nDelivered = 2
  /\ Len(EventsOf(deploymentEvents, "B")) = 1
  /\ Len(EventsOf(deploymentEvents, "A")) = 1
  /\ "A" \in DOMAIN deploymentAgentOutputs
  /\ "A" \in DOMAIN pollArrived /\ "B" \in DOMAIN pollArrived
  /\ pollArrived["B"][1].ts = 1 /\ pollArrived["A"][1].ts = 1
  /\ "B" \notin DOMAIN deploymentAgentOutputs

\* C31: a POST changes the events and the outputs GET returns only for the
\* run its event names: for every other run identifier they are what they
\* were before the POST, so no sequence of posts for A changes what B reads
C31_PostTouchesOnlyItsRun ==
  [][\A event \in PollPosts : Post(event) =>
       \A B \in Runs :
         (~Decodable(event) \/ ~TruthyStr(event, "deployment_id")
            \/ B # event.deployment_id)
           => /\ EventsOf(deploymentEvents', B) = EventsOf(deploymentEvents, B)
              /\ OutputsOf(deploymentAgentOutputs', B) = OutputsOf(deploymentAgentOutputs, B)]_vars

(***************************************************************************)
(* Properties of the Transport Manager (SpecManager).                      *)
(***************************************************************************)
BackoffSchedule == <<1000, 2000, 4000, 8000, 16000>>

\* C4: while no attempt opens the transport, the automatic reconnect attempts
\* are numbered 1..5 and scheduled with delays 1000, 2000, 4000, 8000, 16000 ms;
\* no sixth attempt is scheduled and the attempt counter never exceeds 5.
C4_BackoffSchedule ==
  /\ reconnectAttempts <= 5
  /\ Len(scheduledDelays) = reconnectAttempts
  /\ IsPrefix(scheduledDelays, BackoffSchedule)

\* C4 witness: all five attempts were scheduled and failed; nothing is pending.
C4_Witness ==
  /\ scheduledDelays = BackoffSchedule
  /\ reconnectAttempts = 5
  /\ reconnectTimers = <<>>
  /\ ~isManualClose
  /\ \A s \in Sockets : readyState[s] = "NONE"

\* C11: under every interleaving of connect, disconnect, transport events and
\* reconnect timers at most one transport is connecting or open: connect()
\* while a transport is connecting or open creates no second one.
C11_AtMostOneLiveTransport == Cardinality(LiveSockets) <= 1

\* C12: from disconnect() until the next manual connect() (isManualClose is
\* set) the connection state is and stays "disconnected" and no transport of
\* the manager is open.
C12_DisconnectedStaysDisconnected ==
  isManualClose => (status = "disconnected" /\ \A s \in Sockets : readyState[s] # "OPEN")

\* C14: a manual connect() made after the five automatic attempts are used up
\* resets the attempt counter: once the manually started connection has failed
\* or closed unexpectedly, reconnect attempt 1 is scheduled with delay 1000 ms.
C14_ManualConnectResetsCounter ==
  (manualAfterExhaustion /\ LiveSockets = {}) =>
    (reconnectAttempts = 1 /\ reconnectTimers = <<1000>>)

\* C15: a reconnect timer scheduled before a later disconnect() or a later
\* successful connect is cancelled: when it fires it opens no transport and
\* changes no state of the manager.
C15_CancelledTimerDoesNothing ==
  [][\A i \in 1..cancelledTimers : \A throws \in BOOLEAN :
       ReconnectTimerFire(i, throws) =>
         UNCHANGED <<ws, readyState, reconnectAttempts, reconnectDelay,
                     isManualClose, status>>]_vars

\* C34: when disconnect() was followed by connect(), the close event of the
\* socket disconnect() closed leaves the new connection alone: the reference
\* to the new socket, the connection state and the pending reconnect timers
\* are what they were before the event
C34_LateCloseSparesNewConnection ==
  [][\A s \in Sockets :
       (/\ readyState[s] = "CLOSING"
        /\ ws # 0 /\ ws # s
        /\ readyState[ws] \in {"CONNECTING", "OPEN"}
        /\ SocketClose(s))
         => /\ ws' = ws
            /\ status' = status
            /\ reconnectTimers' = reconnectTimers
            /\ reconnectAttempts' = reconnectAttempts]_vars

\* C35: at most one reconnect timer of the manager is pending at any time
C35_AtMostOneReconnectTimer == Len(reconnectTimers) <= 1

(***************************************************************************)
(* Properties of the monitor's live transport (SpecHook).                  *)
(***************************************************************************)
\* C13: when the transport the live monitor uses closes without a manual
\* disconnect, the connection state becomes "disconnected" and a reconnect is
\* scheduled, so that a new connection attempt will take place.
C13_UnexpectedCloseSchedulesReconnect ==
  hookLastOp = "close" =>
    (connectionStatus = "disconnected" /\ reconnectTimeoutRef # NoReconnectTimeout)

\* C16: after disconnect() or the clearing of the run identifier no late
\* callback changes the state: the close event of a socket that disconnect()
\* closed leaves the connection state and the hook's socket reference alone.
C16_LateCloseChangesNothing ==
  [][\A s \in Sockets :
       (hookReadyState[s] = "CLOSING" /\ HookSocketClose(s)) =>
         UNCHANGED <<connectionStatus, wsRef>>]_vars

\* C36: whenever the hook reports connected, the socket it references exists
\* and is open
C36_ConnectedMeansOpenTransport ==
  connectionStatus = "connected" => (wsRef # 0 /\ hookReadyState[wsRef] = "OPEN")

(***************************************************************************)
(* Properties of push messages on a transport (SpecPush).                  *)
(***************************************************************************)
\* an undecodable message came first on the hook's transport, a status event
\* came second and is in the log, and the transport is still open
C21_Witness ==
  /\ consumer = "hook"
  /\ undecodedAt = {1}
  /\ nDelivered = 2
  /\ Len(wsEvents) = 1
  /\ wsRef # 0 /\ hookReadyState[wsRef] = "OPEN"
  /\ connectionStatus = "connected"

\* C21: an inbound push message that cannot be decoded changes nothing: the
\* event log, the output mapping, the connection state and the reconnect
\* counter stay as they are and the socket stays open; a valid message
\* delivered on an open socket is processed whatever was discarded before.
C21_UndecodableIsDiscarded ==
  /\ [][\A s \in Sockets :
          HookSocketMessage(s, Undecodable) =>
            UNCHANGED <<wsEvents, wsAgentOutputs, connectionStatus, wsRef,
                        hookReadyState, reconnectTimeoutRef>>]_vars
  /\ [][\A s \in Sockets :
          SocketMessage(s, Undecodable) =>
            UNCHANGED <<notifiedEvent, status, reconnectAttempts, reconnectDelay, ws,
                        readyState, reconnectTimers, isManualClose>>]_vars
  /\ [][\A s \in Sockets :
          /\ \A m \in TransportMsgs \ {Undecodable} :
               HookSocketMessage(s, m) =>
                 IF m.type = "agent_outputs"
                 THEN wsEvents' = wsEvents
                 ELSE wsEvents' = Append(wsEvents, m)
          /\ \A m \in ManagerMsgs \ {Undecodable} :
               SocketMessage(s, m) => notifiedEvent' = m]_vars

\* a state where the claim C32 is at work: the hook's open socket raised an
\* error after an event was logged; the socket is still referenced and open
C32_Witness ==
  /\ consumer = "hook"
  /\ hookLastOp = "error"
  /\ connectionStatus = "error"
  /\ wsRef # 0
  /\ hookReadyState[wsRef] = "OPEN"
  /\ Len(wsEvents) = 1

\* C32: an error event of a socket sets the connection state to error and
\* changes nothing else: the sockets and the reference to the current one, the
\* pending reconnect timers, the attempt counter and the backoff base, and
\* the event log stay as they were; a reconnect timer is added only by a
\* close event or by a connect whose socket construction fails
C32_ErrorOnlySetsState ==
  /\ [][\A s \in Sockets : HookSocketError(s) =>
          /\ connectionStatus' = "error"
          /\ UNCHANGED <<wsRef, hookReadyState, reconnectTimeoutRef, wsEvents,
                         wsAgentOutputs>>]_vars
  /\ [][\A s \in Sockets : SocketError(s) =>
          /\ status' = "error"
          /\ UNCHANGED <<ws, readyState, reconnectTimers, reconnectAttempts,
                         reconnectDelay, isManualClose, notifiedEvent>>]_vars
  /\ [][(Len(reconnectTimers') > Len(reconnectTimers) \/ reconnectAttempts' > reconnectAttempts)
          => \/ \E s \in Sockets : SocketClose(s)
             \/ Connect(TRUE)
             \/ \E i \in 1..MaxTimers : ReconnectTimerFire(i, TRUE)]_vars

(***************************************************************************)
(* Properties of the live monitor (SpecMonitor).                           *)
(***************************************************************************)
\* C37: from stopMonitoring until the user starts monitoring again the
\* monitor stays stopped: isMonitoring stays false, no socket is created and
\* the event log is not cleared
C37_StoppedStaysStopped ==
  [][(monitorLastOp = "stop" /\ ~(\E throws \in BOOLEAN : StartMonitoring(throws)))
       => /\ ~isMonitoring'
          /\ \A s \in Sockets : hookReadyState[s] = "NONE" => hookReadyState'[s] = "NONE"
          /\ Len(wsEvents') >= Len(wsEvents)]_vars

(***************************************************************************)
(* Properties of poll mode (SpecPoll).                                     *)
(***************************************************************************)
\* C17: in poll mode at most one fetch is in flight at any time, whatever the
\* order of interval ticks, settled fetches and renders.
C17_AtMostOneFetchInFlight == Len(fetches) <= 1

\* a failed fetch was the last callback, with a last-known-good state to keep
C18_Witness ==
  /\ pollLastOp \in {"fetchRejected", "fetchNotOk"}
  /\ polledEvents # <<>>
  /\ pollError # NoError

\* C18: a poll fetch that fails (rejected, or answered with ok = false) sets
\* a non-null error and leaves events and agentOutputs exactly as they were;
\* a poll fetch that succeeds clears the error.
C18_FailedFetchKeepsState ==
  [][\A i \in 1..MaxInFlight : \A id \in Runs : \A r \in Outcomes(id) :
       FetchSettles(i, r) =>
         IF "rejected" \in DOMAIN r \/ ~r.ok
         THEN /\ pollError' # NoError
              /\ UNCHANGED <<polledEvents, polledAgentOutputs>>
         ELSE pollError' = NoError]_vars

\* C22: once the effects of a switch to a run have run, the store exposed for
\* that run holds no event that was received for another run.
C22_NoEventOfAnotherRun ==
  (pollDeploymentId # "none" /\ ~RenderPending)
    => \A i \in 1..Len(polledEvents) : polledEvents[i].deployment_id = pollDeploymentId

\* C20: after a failed registration for the current run, once the effects have
\* run, the error is set and the poll loop of that run is going.
C20_RegistrationFailureNotFatal ==
  (pollLastOp = "registerFailed" /\ pollDeploymentId # "none" /\ ~RenderPending)
    => (pollError # NoError /\ interval.armed /\ interval.deploymentId = pollDeploymentId)

\* C33: a fetch starts only in a tick of the interval or in the initial poll
\* of the poll effect that runs when the registration succeeded or the run
\* changed; the effects that run after a fetch completed start no fetch
C33_FetchStartsOnlyAtTickOrInitialPoll ==
  [][Len(fetches') > Len(fetches) =>
       \/ IntervalTick
       \/ Render /\ (~rendered.isConnected \/ rendered.deploymentId # pollDeploymentId)]_vars

(***************************************************************************)
(* Properties of the replay page (SpecPage).                               *)
(***************************************************************************)
\* C19: after the replay fetch of a run failed, the page holds an error string
\* and holds no event list under that run's identifier.
C19_ReplayFetchFailureSurfaced ==
  pageLastOp.op = "fetchFailed"
    => /\ pageError # NoError
       /\ ~(deployment.deployment_id = pageLastOp.id /\ deployment.events # <<>>)

(***************************************************************************)
(* Properties of the Replay Controller (SpecReplay, SpecReplayFair).       *)
(***************************************************************************)
\* C5: for a nonempty list the cursor stays within [0, length-1] under every
\* replay operation, scrubbing before the start or beyond the end included.
C5_CursorInRange ==
  eventsLength > 0 => (0 <= currentEventIndex /\ currentEventIndex <= eventsLength - 1)

\* C5 witness: a scrub beyond the right edge of a list of three was clamped to
\* the last event.
C5_Witness ==
  /\ lastOp = "seekBeyond"
  /\ eventsLength >= 3
  /\ currentEventIndex = eventsLength - 1

\* C6: play pressed while idle with the cursor on the last event does nothing:
\* the controller is not playing, neither it nor the parent's play-state
\* callback sees the playing flag true, and no timer is armed.
C6_PlayAtEndIsNoOp ==
  (lastOp = "play" /\ currentEventIndex >= eventsLength - 1) =>
    /\ ~isPlaying
    /\ ~parentIsPlaying
    /\ TRUE \notin Range(notifications)
    /\ ~timeout.armed

AutoStopped ==
  /\ ~isPlaying
  /\ currentEventIndex = eventsLength - 1
  /\ ~timeout.armed
  /\ ~parentIsPlaying
  /\ pendingEffects = {}

\* C7: once playing with no user operation intervening, every tick advances
\* the cursor by exactly one, and playback eventually stops by itself on the
\* last event: idle, no timer armed, the parent told playing = false.
C7_PlaysToTheEnd ==
  /\ [][Tick => currentEventIndex' = currentEventIndex + 1]_vars
  /\ (handsOff /\ isPlaying) ~> AutoStopped

\* C7 witness: left alone at speed 4, playback ticked to the last of at least
\* three events and stopped there.
C7_Witness ==
  /\ handsOff
  /\ lastOp = "tick"
  /\ playbackSpeed = 8
  /\ eventsLength >= 3
  /\ AutoStopped
  /\ notifications # <<>>
  /\ notifications[Len(notifications)] = FALSE

\* C23: setSpeed while Playing with a timer armed leaves that timer as it is:
\* the effects that follow a setSpeed neither cancel nor re-arm nor rescale it.
C23_SetSpeedKeepsArmedTimer ==
  [][(lastOp = "setSpeed" /\ isPlaying /\ timeout.armed /\ RunEffects)
       => timeout' = timeout]_vars

\* C24: a seek leaves the play/pause state as it was, also once the effects
\* that follow the seek have run.
C24_SeekKeepsPlayState ==
  [][/\ \A f \in PointerFractions : TimelineClick(f) => isPlaying' = isPlaying
     /\ (lastOp \in {"seek", "seekBeyond", "seekBefore"} /\ RunEffects)
          => isPlaying' = isPlaying]_vars

\* C25: while the controller is Playing, stepForward and stepBackward do not
\* move the cursor.
C25_StepOnlyInIdle ==
  [][(isPlaying /\ (StepForward \/ StepBackward))
       => currentEventIndex' = currentEventIndex]_vars

\* a state where the claim C26 is at work: the user paused in the middle of
\* the list, where a timer had been armed, and the effects have run
C26_Witness ==
  /\ lastOp = "pause"
  /\ pendingEffects = {}
  /\ currentEventIndex < eventsLength - 1
  /\ ~isPlaying
  /\ ~timeout.armed

\* C26: at most one advance timer is live at any time; once the effects of an
\* operation have run, a timer is armed only while the controller is Playing,
\* so none is armed in Idle, and the timer pending at a pause or at any other
\* transition to Idle has been cancelled: it cannot fire afterwards
C26_AtMostOneTimerNoneInIdle ==
  /\ [](timeout.handles <= 1)
  /\ [](timeout.armed <=> timeout.handles = 1)
  /\ []((pendingEffects = {} /\ ~isPlaying) => (~timeout.armed /\ ~ENABLED Tick))

C28_Witness ==
  /\ lastOp = "goToEnd"
  /\ currentEventIndex = eventsLength - 1
  /\ ~isPlaying
  /\ timeout.armed
  /\ pendingEffects # {}

\* C28: from goToStart / goToEnd, invoked while Idle or Playing, until the next
\* operation the cursor is 0 / length-1 and the controller is Idle; once the
\* effects of the jump have run no timer is armed, so no tick moves the cursor
C28_GoToSetsCursorAndStops ==
  /\ lastOp = "goToStart" => currentEventIndex = 0
  /\ lastOp = "goToEnd" => currentEventIndex = eventsLength - 1
  /\ lastOp \in {"goToStart", "goToEnd"} =>
       /\ ~isPlaying
       /\ pendingEffects = {} => (~timeout.armed /\ ~ENABLED Tick)

(***************************************************************************)
(* Properties of the Timeline Projector (SpecProjector).                   *)
(***************************************************************************)
\* the positions in the canonical order of the stages that have an event
PopulatedPositions == {i \in 1..Len(Stages) : \E j \in 1..Len(events) : events[j].stage = Stages[i]}

\* the positions in the list of the events of a stage
ArrivalIndices(stage) == {j \in 1..Len(events) : events[j].stage = stage}

\* the k-th smallest member of a set of numbers
Nth(S, k) == CHOOSE i \in S : Cardinality({j \in S : j < i}) = k - 1

\* the edges of the projection from one node
EdgesFrom(id) == {k \in 1..Len(projection.edges) : projection.edges[k].source = id}

\* C29: each populated stage other than the last populated one has exactly one
\* distinguished (animated) edge from its last event, and that edge leads to
\* the header of the next populated stage in canonical order, stages without
\* events being skipped; inside a stage each event is connected to the event
\* that arrived next in that stage
C29_EdgesChainPopulatedStages ==
  \A i \in PopulatedPositions :
    LET stage == Stages[i]
        n == Cardinality(ArrivalIndices(stage))
        later == {j \in PopulatedPositions : j > i}
        distinguished == {k \in EdgesFrom(EventId(stage, n - 1)) : projection.edges[k].animated}
    IN /\ later # {} =>
            /\ Cardinality(distinguished) = 1
            /\ \A k \in distinguished :
                 projection.edges[k].target = StageId(Stages[Nth(later, 1)])
       /\ \A e \in 1..(n - 1) :
            \E k \in EdgesFrom(EventId(stage, e - 1)) :
              /\ projection.edges[k].target = EventId(stage, e)
              /\ ~projection.edges[k].animated

\* C38: the run-level status derived from a nonempty list is succeeded only
\* if the list holds a final-stage event whose status is succeeded, and the
\* replay viewer and getDeploymentInfo derive the same status
C38_SucceededNeedsFinalSucceeded ==
  events # <<>> =>
    /\ projection.runStatus = "succeeded" =>
         \E i \in 1..Len(events) :
           /\ events[i].stage = "final"
           /\ "status" \in DOMAIN events[i]
           /\ events[i].status = "succeeded"
    /\ projection.runStatus = projection.infoStatus

\* the event nodes of the projection that stand for the event at a cursor
NodesOfEvent(cursor) ==
  {k \in 1..Len(projection.nodes) :
     /\ projection.nodes[k].type = "agent"
     /\ projection.nodes[k].eventGlobalIndex = cursor}

\* C39: every event of the list, whatever its stage, is shown by exactly one
\* event node, so for every cursor in 0..length-1 exactly one node is the
\* current event
C39_EveryEventHasOneNode ==
  \A cursor \in 0..(Len(events) - 1) : Cardinality(NodesOfEvent(cursor)) = 1

\* the header nodes of the projection, in the order they were emitted
HeaderPositions == {k \in 1..Len(projection.nodes) : projection.nodes[k].type = "stage"}

\* a state where the claim C30 is at work: the final event arrived before the
\* clone event, and the clone group is emitted before the final group
C30_Witness ==
  /\ Len(events) = 2
  /\ events[1].stage = "final"
  /\ events[2].stage = "clone"
  /\ Len(projection.nodes) = 4
  /\ projection.nodes[1].id = StageId("clone")
  /\ projection.nodes[3].id = StageId("final")

\* C30: whatever the arrival order, the groups (a header node followed by the
\* nodes of its events) are emitted in the canonical order of the stages; a
\* stage has a group if and only if it has at least one event; and the k-th
\* node of a group carries the k-th event of that stage to arrive
C30_GroupsInCanonicalOrder ==
  /\ Cardinality(HeaderPositions) = Cardinality(PopulatedPositions)
  /\ \A g \in 1..Cardinality(HeaderPositions) :
       LET at == Nth(HeaderPositions, g)
           stage == Stages[Nth(PopulatedPositions, g)]
           arrivals == ArrivalIndices(stage)
           n == Cardinality(arrivals)
       IN /\ projection.nodes[at].id = StageId(stage)
          /\ at + n <= Len(projection.nodes)
          /\ \A k \in 1..n :
               /\ projection.nodes[at + k].type = "agent"
               /\ projection.nodes[at + k].id = EventId(stage, k - 1)
               /\ projection.nodes[at + k].event = events[Nth(arrivals, k)]
          /\ (at + n < Len(projection.nodes)) => projection.nodes[at + n + 1].type = "stage"

EndsWith(s, suffix) ==
  Len(s) >= Len(suffix) /\ SubSeq(s, Len(s) - Len(suffix) + 1, Len(s)) = suffix

\* the classification as the seven rules state it, first match wins
RuleOrderStatus(event) ==
  IF "error" \in DOMAIN event THEN "failed"
  ELSE IF event.type = "status" /\ "status" \in DOMAIN event /\ event.status = "failed"
  THEN "failed"
  ELSE IF event.type = "status" /\ "status" \in DOMAIN event /\ event.status = "succeeded"
  THEN "completed"
  ELSE IF event.type = "status" /\ "message" \in DOMAIN event
          /\ Includes(ToLowerCase(event.message), StrStarting)
  THEN "running"
  ELSE IF event.type = "status" /\ "message" \in DOMAIN event
          /\ Includes(ToLowerCase(event.message), StrCompleted)
  THEN "completed"
  ELSE IF event.type = "trace" /\ "subtype" \in DOMAIN event
          /\ EndsWith(event.subtype, <<"_">> \o StrEnd)
  THEN "completed"
  ELSE IF event.type = "trace" /\ "subtype" \in DOMAIN event
          /\ EndsWith(event.subtype, <<"_">> \o StrStart)
  THEN "running"
  ELSE "running"

\* C8: every event is classified by the first matching rule of: carries an
\* error field -> failed; status failed -> failed; status succeeded ->
\* completed; message contains "starting" -> running; message contains
\* "completed" -> completed; trace subtype ends in "_end" -> completed, in
\* "_start" -> running; otherwise running.  The four examples classify as
\* running, completed, failed, completed.
C8_FirstMatchingRule ==
  /\ \A i \in 1..Len(events) : projection.eventStatus[i] = RuleOrderStatus(events[i])
  /\ GetEventStatus([type |-> "status", message |-> MsgStartingClone]) = "running"
  /\ GetEventStatus([type |-> "status", message |-> MsgCloneCompleted]) = "completed"
  /\ GetEventStatus([type |-> "status", stage |-> "final", status |-> "failed",
                     error |-> "x"]) = "failed"
  /\ GetEventStatus([type |-> "trace", subtype |-> <<"t", "o", "o", "l", "_", "e", "n", "d">>])
       = "completed"

\* the stage status as stated: the error rule first, then the final stage's
\* terminal event, then completed
StatedStageStatus(list, stage) ==
  LET stageEvents == StageEvents(list, stage)
      terminal == stageEvents[Len(stageEvents)]
  IN IF \E i \in 1..Len(stageEvents) : "error" \in DOMAIN stageEvents[i] THEN "failed"
     ELSE IF stage = "final"
     THEN IF "status" \in DOMAIN terminal /\ terminal.status = "failed"
          THEN "failed" ELSE "completed"
     ELSE "completed"

\* C9: a stage with at least one event is failed if any of its events carries
\* an error field; otherwise the final stage takes the status of its last
\* event; otherwise the stage is completed.  The error rule comes first.
C9_StageStatus ==
  \A stage \in DOMAIN projection.stageStatus :
    projection.stageStatus[stage] = StatedStageStatus(events, stage)

AllFed(name) == scenario = name /\ Len(events) = Len(Recorded(name))

\* C10: the recorded success run projects every populated stage as completed
\* and the run as succeeded; the recorded failing-tests run projects the tests
\* stage as failed and the run as failed.
C10_RecordedRuns ==
  /\ AllFed("success") =>
       /\ DOMAIN projection.stageStatus = Range(Stages)
       /\ \A stage \in DOMAIN projection.stageStatus :
            projection.stageStatus[stage] = "completed"
       /\ projection.runStatus = "succeeded"
  /\ AllFed("failed") =>
       /\ projection.stageStatus["tests"] = "failed"
       /\ projection.runStatus = "failed"

\* C10 witness: the failing-tests run was fed to its last event.
C10_Witness ==
  /\ AllFed("failed")
  /\ "tests" \in DOMAIN projection.stageStatus
  /\ projection.runStatus = "failed"

====
